---- MODULE Spec2Model ----
(***************************************************************************)
(* Job orchestration of the orchest-api (apis/namespace_jobs.py): the      *)
(* two-phase functions CreateJob, UpdateJob, RunJob, AbortJob,             *)
(* UpdateJobPipelineRun, AbortJobPipelineRun, DeleteJobPipelineRun and the *)
(* retention pruner, run by concurrent request handlers against one        *)
(* relational store (PostgreSQL, READ COMMITTED, row locks).               *)
(*                                                                         *)
(* A request handler p runs one request at a time.  Its transaction phase  *)
(* writes to a private overlay (wJobs, wRuns, wSteps) that the other       *)
(* handlers do not see; a row in the overlay is a row p holds the row lock *)
(* of.  Commit copies the overlay into the store; rollback drops it.  A    *)
(* statement that would block on a row lock is a step whose guard is that  *)
(* the lock is free.                                                       *)
(*                                                                         *)
(* Columns of models.Job that no modelled operation reads (name,           *)
(* env_variables, strategy_json, last_scheduled_time, the pipeline         *)
(* definition) are left out of the job row.                                *)
(***************************************************************************)
EXTENDS Integers, Sequences, FiniteSets, TLC

(* ---- bounds ---- *)
MaxOps == 4
MaxParams == 2
MaxRuns == 2
HourLen == 2

Procs == {1, 2}
OneJob == {"j1"}
StepIds == {"s1"}
Times == {1}

(* ---- values ---- *)
NULL == {}
Some(x) == {x}
NoRow == [kind |-> "none"]
Untouched == [kind |-> "untouched"]
EndStates == {"SUCCESS", "FAILURE", "ABORTED"}
OngoingStates == {"PENDING", "STARTED"}
CronExpr == "0 * * * *"
BadCron == "not a cron"

\* A parameter set is named by its content; the lists a job is given hold
\* pairwise different parameter sets, so that their order shows in the runs.
ParamLists == {[i \in 1..n |-> i * 10] : n \in 0..MaxParams}
RetainChoices == {0 - 1, 1}

VARIABLES
    jobs,        \* committed rows of models.Job
    runs,        \* committed rows of models.NonInteractivePipelineRun
    steps,       \* committed rows of models.PipelineRunStep, per run
    pc,          \* position of each request handler
    op,          \* the request a handler is serving and its locals
    wJobs,       \* uncommitted job rows of each handler's session
    wRuns,       \* uncommitted run rows
    wSteps,      \* uncommitted step rows
    queue,       \* TwoPhaseExecutor.collateral_queue of each handler
    response,    \* what the request that ended last returned, or "raised"
    nextUuid,    \* uuid.uuid4() source: the next unused identifier
    dispatched,  \* celery: task ids sent, in order
    revoked,     \* celery: task ids revoked and signalled to abort
    hist,        \* per job: what committed RunJob invocations assigned;
                 \* how often the stale images were processed after a report
                 \* or a job's deletion;
                 \* the exception of the last CreateJob or UpdateJob
                 \* transaction that raised
                 \* the job rows at the start; the pause and resume calls
                 \* in the order they returned or committed, and whether
                 \* their select waited for a row lock
    opsLeft      \* requests that may still be started

vars == <<jobs, runs, steps, pc, op, wJobs, wRuns, wSteps, queue, response,
          nextUuid, dispatched, revoked, hist, opsLeft>>

\* The run identifiers the store has room for.
RunIds == DOMAIN runs
\* The job identifiers the store has room for.
JobIds == DOMAIN jobs

store == <<jobs, runs, steps>>
session == <<wJobs, wRuns, wSteps>>
external == <<dispatched, revoked>>


(* ---- the session of a request handler ---- *)
NoOp == [kind |-> "none", job |-> "", run |-> 0, status |-> "",
         run_uuids |-> {}, flip |-> FALSE, committed |-> FALSE, sent |-> 0,
         now |-> 0, waited |-> FALSE, ret |-> "done"]

NoJobsWritten == [j \in JobIds |-> Untouched]
NoRunsWritten == [r \in RunIds |-> Untouched]

ReadJob(p, j) == IF wJobs[p][j] # Untouched THEN wJobs[p][j] ELSE jobs[j]
ReadRun(p, r) == IF wRuns[p][r] # Untouched THEN wRuns[p][r] ELSE runs[r]
ReadSteps(p, r) == IF wSteps[p][r] # Untouched THEN wSteps[p][r] ELSE steps[r]

NoLockJ(p, j) == \A q \in Procs \ {p} : wJobs[q][j] = Untouched
NoLockR(p, r) == \A q \in Procs \ {p} : wRuns[q][r] = Untouched
NoLockS(p, r) == \A q \in Procs \ {p} : wSteps[q][r] = Untouched

NoLaunch == [batches |-> <<>>, params |-> 0, assigned |-> <<>>]

IsJob(row) == row.kind = "job"
IsRun(row) == row.kind = "run"

Init ==
    /\ jobs = [j \in OneJob |-> NoRow]
    /\ runs = [r \in 1..MaxRuns |-> NoRow]
    /\ steps = [r \in 1..MaxRuns |-> NoRow]
    /\ pc = [p \in Procs |-> "idle"]
    /\ op = [p \in Procs |-> NoOp]
    /\ wJobs = [p \in Procs |-> NoJobsWritten]
    /\ wRuns = [p \in Procs |-> NoRunsWritten]
    /\ wSteps = [p \in Procs |-> NoRunsWritten]
    /\ queue = [p \in Procs |-> <<>>]
    /\ response = "none"
    /\ nextUuid = 1
    /\ dispatched = <<>>
    /\ revoked = {}
    /\ hist = [job |-> [j \in JobIds |-> NoLaunch], used |-> {},
               created |-> {}, reported |-> {}, stale |-> 0, raised |-> "",
               first |-> [j \in JobIds |-> NoRow], calls |-> <<>>]
    /\ opsLeft = MaxOps

(* ---- how a request starts and ends ---- *)
\* A request is handed to the first free handler.
Accept(p) ==
    /\ pc[p] = "idle"
    /\ \A q \in Procs : q < p => pc[q] # "idle"
    /\ opsLeft > 0
    /\ opsLeft' = opsLeft - 1

Set(f, p, v) == [f EXCEPT ![p] = v]

\* The session is closed: nothing uncommitted is left, the handler is free.
CloseSession(p, res) ==
    /\ wJobs' = Set(wJobs, p, NoJobsWritten)
    /\ wRuns' = Set(wRuns, p, NoRunsWritten)
    /\ wSteps' = Set(wSteps, p, NoRunsWritten)
    /\ queue' = Set(queue, p, <<>>)
    /\ op' = Set(op, p, NoOp)
    /\ pc' = Set(pc, p, "idle")
    /\ response' = res

\* The transaction phase raised: the executor rolls the session back and the
\* exception reaches the resource, which answers 500.
Rollback(p) ==
    /\ CloseSession(p, "raised")
    /\ UNCHANGED <<store, external, hist>>

Unit(kind, j) ==
    [unit |-> kind, job |-> j, schedule |-> NULL, tasks |-> <<>>,
     run_uuids |-> {}, completed |-> FALSE, project |-> FALSE]

\* Units whose _collateral is `pass`, or does nothing with these arguments.
PassUnits == {"UpdateJob", "DeleteJobPipelineRun", "AbortJobPipelineRun",
              "PauseCronJob", "ResumeCronJob"}
IsPass(u) ==
    \/ u.unit \in PassUnits
    \/ u.unit \in {"UpdateJobPipelineRun", "DeleteJob"} /\ ~u.project
    \/ u.unit \in {"AbortJob", "AbortPipelineRun"} /\ u.run_uuids = {}

RECURSIVE SkipPass(_)
SkipPass(q) ==
    IF q # <<>> /\ IsPass(Head(q)) THEN SkipPass(Tail(q)) ELSE q

\* The head unit's collateral is over: on to the next unit, or the request
\* returns what its transaction returned.
NextUnit(p) ==
    LET q == SkipPass(Tail(queue[p]))
    IN IF q = <<>>
       THEN CloseSession(p, op[p].ret)
       ELSE /\ queue' = Set(queue, p, q)
            /\ pc' = Set(pc, p, "collateral")
            /\ op' = [op EXCEPT ![p].sent = 0]
            /\ UNCHANGED <<session, response>>

\* The transaction phase of a request is over.  q is the collateral queue
\* and o the handler's locals; wj, wr and ws are the rows the session has
\* written.  A session that wrote nothing has nothing to commit: the
\* request goes on to its collateral queue at once.
EndTransaction(p, wj, wr, ws, q, o, next) ==
    IF next = "commit" /\ wj = NoJobsWritten /\ wr = NoRunsWritten
                       /\ ws = NoRunsWritten
    THEN IF SkipPass(q) = <<>>
         THEN CloseSession(p, o.ret)
         ELSE /\ queue' = Set(queue, p, SkipPass(q))
              /\ pc' = Set(pc, p, "collateral")
              /\ op' = Set(op, p, [o EXCEPT !.committed = TRUE])
              /\ UNCHANGED <<session, response>>
    ELSE /\ wJobs' = Set(wJobs, p, wj)
         /\ wRuns' = Set(wRuns, p, wr)
         /\ wSteps' = Set(wSteps, p, ws)
         /\ queue' = Set(queue, p, q)
         /\ op' = Set(op, p, o)
         /\ pc' = Set(pc, p, next)
         /\ UNCHANGED response

(* ---- cron ---- *)
\* croniter.is_valid
CronIsValid(c) == c = CronExpr
\* croniter("0 * * * *", t).get_next(): the next top of the hour after t.
CronNext(t) == ((t \div HourLen) + 1) * HourLen
\* The times of two hours, tops of the hour included.
Clock == 0..(2 * HourLen)

(* ---- CreateJob ---- *)
NewJob(cron, nst, params, maxret) ==
    [kind |-> "job", status |-> "DRAFT", schedule |-> cron,
     next_scheduled_time |-> nst, parameters |-> params,
     total_scheduled_executions |-> 0, total_scheduled_pipeline_runs |-> 0,
     max_retained_pipeline_runs |-> maxret]

\* A schedule computed from the start time whenever one is given.
CreateJobScheduleStartFirst(cron, start, now) ==
    IF start # NULL THEN [raised |-> FALSE, nst |-> start]
    ELSE IF cron = NULL THEN [raised |-> FALSE, nst |-> NULL]
    ELSE IF \E c \in cron : ~CronIsValid(c)
         THEN [raised |-> TRUE, nst |-> NULL]
         ELSE [raised |-> FALSE, nst |-> Some(CronNext(now))]
CreateJobSchedule(cron, start, now) ==
    IF cron = NULL /\ start = NULL THEN [raised |-> FALSE, nst |-> NULL]
    ELSE IF cron = NULL THEN [raised |-> FALSE, nst |-> start]
    ELSE IF start = NULL
         THEN IF \E c \in cron : ~CronIsValid(c)
              THEN [raised |-> TRUE, nst |-> NULL]
              ELSE [raised |-> FALSE, nst |-> Some(CronNext(now))]
    ELSE [raised |-> TRUE, nst |-> NULL]

\* CreateJob._transaction for the schedules, start times and parameter
\* lists given, called at one of the times nows.
CreateJobAt(p, crons, starts, lists, nows) ==
    /\ Accept(p)
    /\ UNCHANGED nextUuid
    /\ \E j \in JobIds, cron \in crons, start \in starts, now \in nows,
          params \in lists, maxret \in RetainChoices :
          LET sch == CreateJobSchedule(cron, start, now)
          IN /\ NoLockJ(p, j)
             \* the client draws the uuid of a new job afresh
             /\ j \in hist.used => IsJob(jobs[j])
             /\ IF sch.raised \/ IsJob(jobs[j])
                \* a check raises, or the insert meets a row with the uuid
                THEN /\ CloseSession(p, "raised")
                     /\ hist' = [hist EXCEPT !.raised =
                            IF sch.raised THEN "ValueError" ELSE "IntegrityError"]
                     /\ UNCHANGED <<store, external>>
                \* no other session sees or waits for the new row before
                \* the commit: the insert and the commit are one step
                ELSE /\ jobs' = [jobs EXCEPT ![j] =
                                    NewJob(cron, sch.nst, params, maxret)]
                     /\ hist' = [hist EXCEPT !.used = @ \cup {j}]
                     /\ queue' = Set(queue, p, <<[Unit("CreateJob", j) EXCEPT
                                                    !.project = TRUE]>>)
                     /\ op' = Set(op, p, [NoOp EXCEPT !.kind = "CreateJob",
                                !.job = j, !.ret = "job", !.committed = TRUE])
                     /\ pc' = Set(pc, p, "collateral")
                     /\ UNCHANGED <<runs, steps, external, session, response>>

CreateJobWith(p, crons, starts, lists) ==
    CreateJobAt(p, crons, starts, lists, Times)

CreateJob(p) ==
    CreateJobWith(p, {NULL, Some(CronExpr), Some(BadCron)},
                  {NULL} \cup {Some(t) : t \in Times}, ParamLists)

(* ---- TwoPhaseExecutor.__exit__: commit, then the collateral queue ---- *)
Overlay(committed, written) ==
    [k \in DOMAIN committed |->
        IF written[k] # Untouched THEN written[k] ELSE committed[k]]

\* The run rows a session inserted.
Inserted(p) == {r \in RunIds : wRuns[p][r] # Untouched /\ runs[r] = NoRow
                                /\ IsRun(wRuns[p][r])}

\* The rows of R in the order of their insertion.
RECURSIVE InOrder(_)
InOrder(R) ==
    IF R = {} THEN <<>>
    ELSE LET r == CHOOSE x \in R : \A y \in R : x <= y
         IN <<r>> \o InOrder(R \ {r})

\* What the RunJob unit of a committing session adds to the job's record:
\* the batch of rows it inserted, the number of parameter sets the invocation
\* found and the run indexes the rows carry.
Launched(p, q, h) ==
    LET units == {i \in 1..Len(q) : q[i].unit = "RunJob"}
        batch == InOrder(Inserted(p))
    IN [j \in JobIds |->
          IF \E i \in units : q[i].job = j
          THEN [batches |-> Append(h[j].batches, batch),
                params |-> h[j].params + Len(wJobs[p][j].parameters),
                assigned |-> h[j].assigned \o
                    [i \in 1..Len(batch) |-> wRuns[p][batch[i]].pipeline_run_index]]
          ELSE h[j]]

Commit(p) ==
    /\ pc[p] = "commit"
    /\ jobs' = Overlay(jobs, wJobs[p])
    /\ runs' = Overlay(runs, wRuns[p])
    /\ steps' = Overlay(steps, wSteps[p])
    /\ hist' = [job |-> Launched(p, queue[p], hist.job),
                used |-> hist.used,
                created |-> hist.created \cup Inserted(p),
                reported |-> hist.reported \cup
                    (IF op[p].kind = "UpdateJobPipelineRun"
                        /\ wRuns[p][op[p].run] # Untouched
                        /\ op[p].status \in EndStates
                     THEN {op[p].run} ELSE {}),
                stale |-> hist.stale, raised |-> hist.raised,
                first |-> hist.first,
                calls |-> hist.calls \o
                    (IF op[p].kind \in {"PauseCronJob", "ResumeCronJob"}
                     THEN <<[kind |-> op[p].kind, job |-> op[p].job,
                             now |-> op[p].now, waited |-> op[p].waited,
                             ret |-> op[p].ret]>>
                     ELSE <<>>)]
    /\ LET q == SkipPass(queue[p])
       IN IF q = <<>>
          THEN CloseSession(p, op[p].ret)
          ELSE /\ queue' = Set(queue, p, q)
               /\ pc' = Set(pc, p, "collateral")
               /\ op' = [op EXCEPT ![p].committed = TRUE, ![p].sent = 0]
               /\ wJobs' = Set(wJobs, p, NoJobsWritten)
               /\ wRuns' = Set(wRuns, p, NoRunsWritten)
               /\ wSteps' = Set(wSteps, p, NoRunsWritten)
               /\ UNCHANGED response
    /\ UNCHANGED <<external, nextUuid, opsLeft>>

\* The committed runs of a job.
RunsOf(j) == {r \in RunIds : IsRun(runs[r]) /\ runs[r].job_uuid = j}

(* ---- CreateJob: collateral and revert ---- *)
\* lock_environment_images_for_job either pins the images or raises.
CreateJobCollateral(p) ==
    /\ pc[p] = "collateral"
    /\ Head(queue[p]).unit = "CreateJob"
    /\ \/ NextUnit(p)
       \/ /\ pc' = Set(pc, p, "revert")
          /\ UNCHANGED <<session, queue, op, response>>
    /\ UNCHANGED <<store, external, hist, nextUuid, opsLeft>>

\* A revert that only deletes a job that is still a draft.
CreateJobRevertedIfDraft(job) ==
    IF job.kind = "job" /\ job.status # "DRAFT" THEN job ELSE NoRow
\* CreateJob._revert: the delete matches the uuid only.
CreateJobReverted(job) == NoRow

CreateJobRevert(p) ==
    /\ pc[p] = "revert"
    /\ Head(queue[p]).unit = "CreateJob"
    /\ LET j == Head(queue[p]).job
           gone == IF CreateJobReverted(jobs[j]) = NoRow THEN RunsOf(j) ELSE {}
       IN /\ NoLockJ(p, j)
          /\ \A r \in gone : NoLockR(p, r) /\ NoLockS(p, r)
          /\ jobs' = [jobs EXCEPT ![j] = CreateJobReverted(@)]
          \* the foreign keys cascade the deletion to the runs and steps
          /\ runs' = [r \in RunIds |-> IF r \in gone THEN NoRow ELSE runs[r]]
          /\ steps' = [r \in RunIds |-> IF r \in gone THEN NoRow ELSE steps[r]]
          /\ UNCHANGED hist
    /\ CloseSession(p, "raised")
    /\ UNCHANGED <<external, nextUuid, opsLeft>>

(* ---- the retention pruner ---- *)
\* A threshold that counts the runs instead of taking the last index.
RunsToBeDeletedByCount(j) ==
    IF jobs[j].max_retained_pipeline_runs < 0 THEN {}
    ELSE {r \in RunsOf(j) :
            /\ runs[r].status \in EndStates
            /\ runs[r].pipeline_run_index <=
                  jobs[j].total_scheduled_pipeline_runs
                      - jobs[j].max_retained_pipeline_runs}
\* A query without the filter on the status.
RunsToBeDeletedAnyStatus(j) ==
    IF jobs[j].max_retained_pipeline_runs < 0 THEN {}
    ELSE {r \in RunsOf(j) :
            runs[r].pipeline_run_index <=
                (jobs[j].total_scheduled_pipeline_runs - 1)
                    - jobs[j].max_retained_pipeline_runs}
RunsToBeDeleted(j) ==
    IF jobs[j].max_retained_pipeline_runs < 0 THEN {}
    ELSE {r \in RunsOf(j) :
            /\ runs[r].status \in EndStates
            /\ runs[r].pipeline_run_index <=
                  (jobs[j].total_scheduled_pipeline_runs - 1)
                      - jobs[j].max_retained_pipeline_runs}

\* _delete_non_retained_pipeline_runs: every run to be deleted is handed to
\* the cleanup endpoint, which deletes the rows in D and answers with an
\* error status for the others.  The job query or a request may raise.
DeleteNonRetainedPipelineRuns(p, j, raises) ==
    IF ~IsJob(jobs[j])
    THEN raises /\ UNCHANGED store
    ELSE /\ raises => RunsToBeDeleted(j) # {}
         /\ \E D \in SUBSET {r \in RunsToBeDeleted(j) : NoLockR(p, r) /\ NoLockS(p, r)} :
               /\ runs' = [r \in RunIds |-> IF r \in D THEN NoRow ELSE runs[r]]
               /\ steps' = [r \in RunIds |-> IF r \in D THEN NoRow ELSE steps[r]]
               /\ UNCHANGED jobs

(* ---- RunJob ---- *)
\* NextScheduledJob.get: the job the poll loop is told to run next.
Due(j) == IsJob(jobs[j]) /\ jobs[j].status # "DRAFT"
            /\ jobs[j].next_scheduled_time # NULL

NextScheduledJob ==
    {j \in JobIds : Due(j) /\ \A k \in JobIds : Due(k) =>
        \A t \in jobs[j].next_scheduled_time, u \in jobs[k].next_scheduled_time : t <= u}

\* The poll loop read the next scheduled job and asks for it to be run.
SchedulerPick(p) ==
    /\ Accept(p)
    /\ \E j \in NextScheduledJob :
          /\ op' = Set(op, p, [NoOp EXCEPT !.kind = "RunJob", !.job = j])
          /\ pc' = Set(pc, p, "run_job")
    /\ UNCHANGED <<store, session, queue, response, external, hist, nextUuid>>

\* A select without with_for_update: it waits for nothing.
JobRowNoLock(p, j) == TRUE
\* with_for_update: the select waits until no other session holds the row.
JobRowLock(p, j) == NoLockJ(p, j)

\* The index counted within the batch only.
PipelineRunIndexInBatch(job, run_index) == run_index
PipelineRunIndex(job, run_index) == job.total_scheduled_pipeline_runs + run_index

\* A run row whose job_run_index counts the turns of the loop as well.
NonInteractiveRunCounted(job, j, run_index) ==
    [kind |-> "run", job_uuid |-> j, status |-> "PENDING",
     parameters |-> job.parameters[run_index + 1],
     job_run_index |-> job.total_scheduled_executions + run_index,
     job_run_pipeline_run_index |-> run_index,
     pipeline_run_index |-> PipelineRunIndex(job, run_index)]
\* The run row of the run_index-th (0-based) parameter set.
NonInteractiveRun(job, j, run_index) ==
    [kind |-> "run", job_uuid |-> j, status |-> "PENDING",
     parameters |-> job.parameters[run_index + 1],
     job_run_index |-> job.total_scheduled_executions,
     job_run_pipeline_run_index |-> run_index,
     pipeline_run_index |-> PipelineRunIndex(job, run_index)]

\* Task ids that are not the uuids of the batch's run rows.
TaskIdsApart(first, n) == [i \in 1..n |-> MaxRuns + 1 - (first + i - 1)]
\* The task ids of a batch, generated up front: uuid.uuid4() is fresh.
TaskIds(first, n) == [i \in 1..n |-> first + i - 1]

\* RunJob._transaction from the locked job row on.  An ABORTED job only has
\* the collateral arguments preset (lines 582-585): there is no return, and
\* lines 663-674 overwrite them after the loop.
RunJobJob(job) ==
    [job EXCEPT
        !.status = IF @ = "PENDING" THEN "STARTED" ELSE @,
        !.total_scheduled_pipeline_runs = @ + Len(job.parameters),
        !.total_scheduled_executions = @ + 1]

RunJobRuns(p, job, j, first) ==
    [r \in RunIds |->
        IF r >= first /\ r < first + Len(job.parameters)
        THEN NonInteractiveRun(job, j, r - first)
        ELSE wRuns[p][r]]

RunJobSteps(p, job, first) ==
    [r \in RunIds |->
        IF r >= first /\ r < first + Len(job.parameters)
        THEN [s \in StepIds |-> "PENDING"]
        ELSE wSteps[p][r]]

RunJobUnit(job, j, first) ==
    [Unit("RunJob", j) EXCEPT !.schedule = job.schedule, !.project = TRUE,
                              !.tasks = TaskIds(first, Len(job.parameters))]

\* How many turns of the loop construct_pipeline lets pass: all of them, or
\* it raises in the last one.
Built(job) == {n \in {Len(job.parameters) - 1, Len(job.parameters)} : n >= 0}

RunJobTransaction(p) ==
    /\ pc[p] = "run_job"
    /\ LET j == op[p].job
           job == jobs[j]
       IN /\ JobRowLock(p, j)
          /\ IF ~IsJob(job)
             THEN Rollback(p) /\ UNCHANGED nextUuid
             ELSE \E built \in Built(job) :
                    /\ nextUuid + built - 1 <= Cardinality(RunIds)
                    /\ nextUuid' = nextUuid + built
                    /\ IF built < Len(job.parameters)
                       \* construct_pipeline raised in iteration built + 1
                       THEN Rollback(p)
                       ELSE /\ EndTransaction(p,
                                  [NoJobsWritten EXCEPT ![j] = RunJobJob(job)],
                                  RunJobRuns(p, job, j, nextUuid),
                                  RunJobSteps(p, job, nextUuid),
                                  <<RunJobUnit(job, j, nextUuid)>>,
                                  op[p], "commit")
                            /\ UNCHANGED <<store, external, hist>>
    /\ UNCHANGED opsLeft

\* RunJob._collateral up to the first send_task.
RunJobCollateral(p) ==
    /\ pc[p] = "collateral"
    /\ Head(queue[p]).unit = "RunJob"
    /\ IF Head(queue[p]).tasks = <<>>
       THEN NextUnit(p) /\ UNCHANGED store
       ELSE \E raises \in BOOLEAN :
              /\ DeleteNonRetainedPipelineRuns(p, Head(queue[p]).job, raises)
              /\ pc' = Set(pc, p, IF raises THEN "revert" ELSE "dispatch")
              /\ UNCHANGED <<session, queue, op, response>>
    /\ UNCHANGED <<external, hist, nextUuid, opsLeft>>

\* A loop that sends the first task of the batch in every turn.
SentTaskFirst(tasks, sent) == tasks[1]
\* `for task_id, pipeline in tasks_to_launch`: the task of this turn.
SentTask(tasks, sent) == tasks[sent + 1]

\* One turn of the send_task loop: the task is sent, or the broker raises.
RunJobDispatch(p) ==
    /\ pc[p] = "dispatch"
    /\ LET tasks == Head(queue[p]).tasks
       IN \/ /\ dispatched' = Append(dispatched, SentTask(tasks, op[p].sent))
             /\ IF op[p].sent + 1 = Len(tasks)
                THEN NextUnit(p)
                ELSE /\ op' = [op EXCEPT ![p].sent = @ + 1]
                     /\ UNCHANGED <<session, queue, pc, response>>
          \/ /\ pc' = Set(pc, p, "revert")
             /\ UNCHANGED <<session, queue, op, response, dispatched>>
    /\ UNCHANGED <<store, revoked, hist, nextUuid, opsLeft>>

\* A revert that goes through the status updater.
RevertStatusIfOngoing(cur) == IF cur \in {"PENDING", "STARTED"} THEN "FAILURE" ELSE cur
\* RunJob._revert: the updates carry no condition on the current status.
RevertStatus(cur) == "FAILURE"

RunJobRevert(p) ==
    /\ pc[p] = "revert"
    /\ Head(queue[p]).unit = "RunJob"
    /\ LET u == Head(queue[p])
           ids == {u.tasks[i] : i \in 1..Len(u.tasks)}
       IN /\ u.schedule = NULL => NoLockJ(p, u.job)
          /\ \A r \in ids : NoLockR(p, r) /\ NoLockS(p, r)
          /\ jobs' = IF u.schedule = NULL /\ IsJob(jobs[u.job])
                     THEN [jobs EXCEPT ![u.job].status = "FAILURE"]
                     ELSE jobs
          /\ steps' = [r \in RunIds |->
                         IF r \in ids /\ steps[r] # NoRow
                         THEN [s \in StepIds |-> RevertStatus(steps[r][s])]
                         ELSE steps[r]]
          /\ runs' = [r \in RunIds |->
                        IF r \in ids /\ IsRun(runs[r])
                        THEN [runs[r] EXCEPT !.status = RevertStatus(@)]
                        ELSE runs[r]]
    /\ CloseSession(p, "raised")
    /\ UNCHANGED <<external, hist, nextUuid, opsLeft>>

(* ---- UpdateJob ---- *)
TheOne(x) == CHOOSE v \in x : TRUE

\* The requests of Job.put: the fields a call may carry (NULL: not given).
AllUpdateRequests ==
    {a \in [cron : {NULL, Some(CronExpr), Some(BadCron)},
            parameters : {NULL} \cup {Some(l) : l \in ParamLists},
            next_scheduled_time : {NULL} \cup {Some(t) : t \in Times},
            max_retained_pipeline_runs :
                {NULL, Some(0 - 2)} \cup {Some(m) : m \in RetainChoices},
            confirm_draft : BOOLEAN] : TRUE}

\* The requests the handlers are given: a confirmation, which carries the
\* schedule the draft is to keep, or new parameters.
UpdateRequests ==
    {a \in AllUpdateRequests :
        /\ Cardinality({f \in {"cron", "parameters", "next_scheduled_time",
                               "max_retained_pipeline_runs"} : a[f] # NULL}) <= 1
        /\ a.cron # Some(BadCron)
        /\ a.max_retained_pipeline_runs = NULL
        /\ a.confirm_draft = (a.parameters = NULL)}

\* A check of next_scheduled_time that only looks at the status.
NextScheduledTimeRejectedUnlessDraft(job, a) == job.status # "DRAFT"
\* The two checks a supplied next_scheduled_time goes through; job is the
\* row after the cron_schedule of the same call has been applied.
NextScheduledTimeRejected(job, a) ==
    \/ job.status # "DRAFT"
    \/ job.schedule # NULL /\ a.cron # NULL

\* UpdateJob._transaction up to the confirm_draft block: the row after the
\* field updates, and whether one of the checks raised.
UpdateJobFields(job, a, now) ==
    LET oneOff(jb) == jb.schedule = NULL /\ jb.status # "DRAFT"
        bad1 == a.cron # NULL /\ (oneOff(job) \/ ~CronIsValid(TheOne(a.cron)))
        j1 == IF a.cron # NULL
              THEN [job EXCEPT !.schedule = a.cron,
                               !.next_scheduled_time = Some(CronNext(now))]
              ELSE job
        bad2 == a.parameters # NULL /\ oneOff(j1)
        j2 == IF a.parameters # NULL
              THEN [j1 EXCEPT !.parameters = TheOne(a.parameters)] ELSE j1
        bad3 == a.next_scheduled_time # NULL /\ NextScheduledTimeRejected(j2, a)
        j3 == IF a.next_scheduled_time # NULL
              THEN [j2 EXCEPT !.schedule = IF a.cron = NULL THEN NULL ELSE @,
                              !.next_scheduled_time = a.next_scheduled_time]
              ELSE j2
        j4 == IF j3.status = "DRAFT" /\ a.next_scheduled_time = NULL /\ a.cron = NULL
              THEN [j3 EXCEPT !.schedule = NULL, !.next_scheduled_time = NULL]
              ELSE j3
        bad5 == a.max_retained_pipeline_runs # NULL
                   /\ (oneOff(j4) \/ TheOne(a.max_retained_pipeline_runs) < 0 - 1)
        j5 == IF a.max_retained_pipeline_runs # NULL
              THEN [j4 EXCEPT !.max_retained_pipeline_runs =
                                  TheOne(a.max_retained_pipeline_runs)]
              ELSE j4
        bad6 == a.confirm_draft /\ j5.status # "DRAFT"
    IN [raised |-> bad1 \/ bad2 \/ bad3 \/ bad5 \/ bad6, job |-> j5]

\* A RunJob that sends its tasks from within the transaction.
RunJobInlineSending(p, unit) ==
    dispatched' = dispatched \o unit.tasks /\ UNCHANGED revoked
\* The confirm_draft block calls RunJob(self.tpe).transaction: the unit joins
\* the queue of the request's executor, and nothing is sent to celery while
\* the transaction is open.
RunJobInline(p, unit) == UNCHANGED external

\* The status a confirmed draft gets, before a RunJob called inline.
ConfirmedStatusPending(job) == "PENDING"
ConfirmedStatus(job) == IF job.schedule = NULL THEN "PENDING" ELSE "STARTED"

\* The exception of an UpdateJob._transaction that raised before the inline
\* RunJob: the job query's, a check's, or the missing image's.
UpdateJobError(job, check_raised) ==
    IF ~IsJob(job) THEN "NoResultFound"
    ELSE IF check_raised THEN "ValueError" ELSE "ImageNotFound"

\* A confirmation that does not look at the environment images.
EnvImagesUnchecked(a, missing) == FALSE
\* The confirm_draft block finds an environment of the pipeline without a
\* built image (get_env_uuids_missing_image) and raises ImageNotFound.
EnvImagesMissing(a, missing) == a.confirm_draft /\ missing

\* UpdateJob._transaction for the requests in reqs; missings says whether
\* an environment the job's pipeline refers to may lack an image.
UpdateJobImages(p, reqs, missings) ==
    /\ Accept(p)
    /\ \E j \in JobIds, a \in reqs, now \in Times, missing \in missings :
          LET upd == UpdateJobFields(jobs[j], a, now)
              job == upd.job
              n == Len(job.parameters)
          IN /\ JobRowLock(p, j)
             /\ missing => IsJob(jobs[j]) /\ ~upd.raised /\ a.confirm_draft
             /\ IF ~IsJob(jobs[j]) \/ upd.raised \/ EnvImagesMissing(a, missing)
                THEN /\ CloseSession(p, "raised")
                     /\ hist' = [hist EXCEPT !.raised =
                                    UpdateJobError(jobs[j], upd.raised)]
                     /\ UNCHANGED <<store, external, nextUuid>>
                ELSE IF a.confirm_draft /\ job.schedule = NULL
                        /\ job.next_scheduled_time = NULL
                THEN \E built \in Built(job) :
                       LET pending == [job EXCEPT !.status = ConfirmedStatus(job)]
                       IN /\ nextUuid + built - 1 <= Cardinality(RunIds)
                          /\ nextUuid' = nextUuid + built
                          /\ IF built < n
                             THEN Rollback(p)
                             ELSE /\ RunJobInline(p, RunJobUnit(pending, j, nextUuid))
                                  /\ EndTransaction(p,
                                        [NoJobsWritten EXCEPT ![j] = RunJobJob(pending)],
                                        RunJobRuns(p, pending, j, nextUuid),
                                        RunJobSteps(p, pending, nextUuid),
                                        <<Unit("UpdateJob", j),
                                          RunJobUnit(pending, j, nextUuid)>>,
                                        [NoOp EXCEPT !.kind = "UpdateJob", !.job = j,
                                                     !.ret = "200"],
                                        "commit")
                                  /\ UNCHANGED <<store, hist>>
                ELSE /\ EndTransaction(p,
                            [NoJobsWritten EXCEPT ![j] =
                                IF ~a.confirm_draft THEN job
                                ELSE [job EXCEPT !.status = ConfirmedStatus(job)]],
                            NoRunsWritten, NoRunsWritten,
                            <<Unit("UpdateJob", j)>>,
                            [NoOp EXCEPT !.kind = "UpdateJob", !.job = j,
                                         !.ret = "200"],
                            "commit")
                     /\ UNCHANGED <<store, external, hist, nextUuid>>

\* UpdateJob._transaction for the requests in reqs.
UpdateJob(p, reqs) == UpdateJobImages(p, reqs, BOOLEAN)

UpdateJobTransaction(p) == UpdateJob(p, UpdateRequests)

(* ---- the status updater ---- *)
\* update_status_db: only an entity that is PENDING or STARTED is updated.
UpdateStatus(cur, new) == IF cur \in OngoingStates THEN new ELSE cur

UpdateStepsStatus(row, new) ==
    IF row = NoRow THEN NoRow ELSE [s \in StepIds |-> UpdateStatus(row[s], new)]

\* The runs of a job that are not yet in an end state, among the run rows
\* a session sees.
RunsToComplete(view, j) ==
    {r \in RunIds : IsRun(view[r]) /\ view[r].job_uuid = j
                      /\ view[r].status \in OngoingStates}

(* ---- AbortJob ---- *)
\* Nothing to do only for a job that does not exist.
AbortNoopIfMissing(job) == ~(job.kind = "job")
\* Nothing to do for a job that does not exist or is in an end state.
AbortNoop(job) == ~IsJob(job) \/ job.status \in EndStates

\* Every run of the job, whatever its status.
AbortableRunsAll(j) == {r \in RunIds : runs[r].kind = "run" /\ runs[r].job_uuid = j}
\* The runs of the job that can still be aborted.
AbortableRuns(j) == {r \in RunsOf(j) : runs[r].status \in OngoingStates}

\* AbortJob._transaction up to the first statement that writes: the job and
\* its runs are read without a lock.
AbortJobTransaction(p, j) ==
    /\ Accept(p)
    /\ LET job == jobs[j]
           run_uuids == AbortableRuns(j)
           noop == AbortNoop(job)
           unit == [Unit("AbortJob", j) EXCEPT
                       !.project = IsJob(job),
                       !.run_uuids = IF noop THEN {} ELSE run_uuids]
       IN EndTransaction(p, NoJobsWritten, NoRunsWritten, NoRunsWritten,
             <<unit>>,
             [NoOp EXCEPT
                 !.kind = "AbortJob", !.job = j,
                 !.run_uuids = unit.run_uuids,
                 !.ret = IF ~IsJob(job) THEN "False"
                         ELSE IF noop THEN "None" ELSE "True"],
             IF noop THEN "commit" ELSE "abort_flush")
    /\ UNCHANGED <<store, external, hist, nextUuid>>

AbortJobSelect(p) == \E j \in JobIds : AbortJobTransaction(p, j)

\* The updates of AbortJob._transaction reach the store's rows: they wait for
\* the row locks and are applied to the rows as they then are.
AbortJobFlush(p) ==
    /\ pc[p] = "abort_flush"
    /\ LET j == op[p].job
           ids == op[p].run_uuids
       IN /\ NoLockJ(p, j)
          /\ \A r \in ids : NoLockR(p, r) /\ NoLockS(p, r)
          /\ IF ~IsJob(jobs[j])
             THEN Rollback(p)
             ELSE /\ wJobs' = [wJobs EXCEPT ![p][j] =
                        [jobs[j] EXCEPT !.status = "ABORTED",
                                        !.next_scheduled_time = NULL]]
                  /\ wRuns' = Set(wRuns, p, [r \in RunIds |->
                        IF r \in ids /\ IsRun(runs[r])
                        THEN [runs[r] EXCEPT !.status = UpdateStatus(@, "ABORTED")]
                        ELSE Untouched])
                  /\ wSteps' = Set(wSteps, p, [r \in RunIds |->
                        IF r \in ids /\ steps[r] # NoRow
                        THEN UpdateStepsStatus(steps[r], "ABORTED")
                        ELSE Untouched])
                  /\ pc' = Set(pc, p, "commit")
                  /\ UNCHANGED <<store, external, hist, queue, op, response>>
    /\ UNCHANGED <<nextUuid, opsLeft>>

\* AbortJob._collateral: revoke, then signal every run's task to abort.
AbortJobCollateral(p) ==
    /\ pc[p] = "collateral"
    /\ Head(queue[p]).unit \in {"AbortJob", "AbortPipelineRun"}
    /\ revoked' = revoked \cup Head(queue[p]).run_uuids
    /\ NextUnit(p)
    /\ UNCHANGED <<store, dispatched, hist, nextUuid, opsLeft>>

(* ---- DeleteJob ---- *)
\* The run_uuids of the AbortJob that DeleteJob._transaction calls: none
\* when the job is in an end state.
DeleteJobAborts(j) == IF AbortNoop(jobs[j]) THEN {} ELSE AbortableRuns(j)

\* DeleteJob._transaction up to the first statement that writes: the job
\* and, in the AbortJob it calls, the runs are read without a lock.
DeleteJobTransaction(p) ==
    /\ Accept(p)
    /\ \E j \in JobIds :
          IF ~IsJob(jobs[j])
          THEN EndTransaction(p, NoJobsWritten, NoRunsWritten, NoRunsWritten,
                  <<Unit("DeleteJob", j)>>,
                  [NoOp EXCEPT !.kind = "DeleteJob", !.job = j,
                               !.ret = "False"],
                  "commit")
          ELSE EndTransaction(p, NoJobsWritten, NoRunsWritten, NoRunsWritten,
                  <<[Unit("DeleteJob", j) EXCEPT !.project = TRUE],
                    [Unit("AbortJob", j) EXCEPT
                        !.project = TRUE, !.run_uuids = DeleteJobAborts(j)]>>,
                  [NoOp EXCEPT !.kind = "DeleteJob", !.job = j,
                               !.run_uuids = DeleteJobAborts(j),
                               !.ret = "True"],
                  "delete_flush")
    /\ UNCHANGED <<store, external, hist, nextUuid>>

\* The statements of DeleteJob._transaction reach the store: they wait for
\* the row locks; the job's deletion takes the job's runs and their steps
\* with it, as the rows then are.  Deleting a row that is gone raises.
DeleteJobFlush(p) ==
    /\ pc[p] = "delete_flush"
    /\ LET j == op[p].job
           gone == RunsOf(j)
       IN /\ NoLockJ(p, j)
          /\ \A r \in gone \cup op[p].run_uuids :
                NoLockR(p, r) /\ NoLockS(p, r)
          /\ IF ~IsJob(jobs[j])
             THEN Rollback(p)
             ELSE /\ wJobs' = [wJobs EXCEPT ![p][j] = NoRow]
                  /\ wRuns' = Set(wRuns, p, [r \in RunIds |->
                        IF r \in gone THEN NoRow ELSE Untouched])
                  /\ wSteps' = Set(wSteps, p, [r \in RunIds |->
                        IF r \in gone THEN NoRow ELSE Untouched])
                  /\ pc' = Set(pc, p, "commit")
                  /\ UNCHANGED <<store, external, hist, queue, op, response>>
    /\ UNCHANGED <<nextUuid, opsLeft>>

\* DeleteJob._collateral: the stale environment images of the project are
\* processed.
DeleteJobCollateral(p) ==
    /\ pc[p] = "collateral"
    /\ Head(queue[p]).unit = "DeleteJob"
    /\ hist' = [hist EXCEPT !.stale = @ + 1]
    /\ NextUnit(p)
    /\ UNCHANGED <<store, external, nextUuid, opsLeft>>

(* ---- UpdateJobPipelineRun ---- *)
Reported == {"STARTED", "SUCCESS", "FAILURE", "ABORTED"}
StepReported == {"SUCCESS", "FAILURE"}

\* The rows update_status_db matches for a run of a job.
RunMatches(row, j) == IsRun(row) /\ row.job_uuid = j /\ row.status \in OngoingStates

\* A job counted as completed only when every run succeeded.
JobCompletedAllSucceeded(view, j, status) ==
    /\ status = "SUCCESS"
    /\ jobs[j].schedule = {}
    /\ \A r \in RunIds : view[r].kind = "run" /\ view[r].job_uuid = j
                              => view[r].status = "SUCCESS"
\* A job counted as completed whether or not it has a schedule.
JobCompletedAnySchedule(view, j, status) ==
    status \in EndStates /\ RunsToComplete(view, j) = {}
\* UpdateJobPipelineRun._transaction after the run's update, the session
\* seeing the run rows of view: whether the job is found completed.
JobCompleted(view, j, status) ==
    /\ status \in EndStates
    /\ jobs[j].schedule = NULL
    /\ RunsToComplete(view, j) = {}

\* A unit whose collateral prunes after an update to any status.
UpdateJobPipelineRunUnitAnyStatus(j, status, completed) ==
    [Unit("UpdateJobPipelineRun", j) EXCEPT
        !.project = TRUE, !.completed = completed]
\* The collateral arguments of UpdateJobPipelineRun: project_uuid and
\* job_uuid are set only for an update to an end state.
UpdateJobPipelineRunUnit(j, status, completed) ==
    [Unit("UpdateJobPipelineRun", j) EXCEPT
        !.project = status \in EndStates, !.completed = completed]

DispatchedIds == {dispatched[i] : i \in 1..Len(dispatched)}

\* UpdateJobPipelineRun._transaction for a report of one of the statuses.
UpdateJobPipelineRun(p, statuses) ==
    /\ Accept(p)
    /\ \E j \in JobIds, r \in DispatchedIds, status \in statuses :
          /\ RunMatches(runs[r], j) => NoLockR(p, r)
          /\ IF status \in EndStates /\ ~IsJob(jobs[j])
             THEN Rollback(p)
             ELSE LET view == IF RunMatches(runs[r], j)
                              THEN [runs EXCEPT ![r].status = status] ELSE runs
                      completed == JobCompleted(view, j, status)
                  IN /\ EndTransaction(p, NoJobsWritten,
                           [NoRunsWritten EXCEPT ![r] =
                               IF RunMatches(runs[r], j) THEN view[r] ELSE Untouched],
                           NoRunsWritten,
                           <<UpdateJobPipelineRunUnit(j, status, completed)>>,
                           [NoOp EXCEPT
                               !.kind = "UpdateJobPipelineRun", !.job = j,
                               !.run = r, !.status = status,
                               !.flip = completed, !.ret = "200"],
                           IF completed THEN "flip" ELSE "commit")
                     /\ UNCHANGED <<store, external, hist>>
    /\ UNCHANGED nextUuid

UpdateJobPipelineRunTransaction(p) == UpdateJobPipelineRun(p, Reported)

\* The job's update to SUCCESS waits for the row lock and is applied to the
\* row as it then is: a job in an end state is left alone.
JobToSuccess(p) ==
    /\ pc[p] = "flip"
    /\ NoLockJ(p, op[p].job)
    /\ LET j == op[p].job
           job == ReadJob(p, j)
       IN EndTransaction(p,
             [wJobs[p] EXCEPT ![j] =
                 IF IsJob(job) /\ job.status \notin EndStates
                 THEN [job EXCEPT !.status = "SUCCESS"]
                 ELSE @],
             wRuns[p], wSteps[p], queue[p], op[p], "commit")
    /\ UNCHANGED <<store, external, hist, nextUuid, opsLeft>>

\* UpdateJobPipelineRun._collateral: the stale environment images are
\* processed when the job was found completed, then the job is pruned.
UpdateJobPipelineRunCollateral(p) ==
    /\ pc[p] = "collateral"
    /\ Head(queue[p]).unit = "UpdateJobPipelineRun"
    /\ hist' = [hist EXCEPT !.stale =
                    IF Head(queue[p]).completed THEN @ + 1 ELSE @]
    /\ \E raises \in BOOLEAN :
          /\ DeleteNonRetainedPipelineRuns(p, Head(queue[p]).job, raises)
          /\ IF raises THEN CloseSession(p, "raised") ELSE NextUnit(p)
    /\ UNCHANGED <<external, nextUuid, opsLeft>>

\* PipelineStepStatus.put: one update_status_db and a commit.
PipelineStepStatusPut(p) ==
    /\ Accept(p)
    /\ \E r \in DispatchedIds, s \in StepIds, status \in StepReported :
          /\ steps[r] # NoRow
          /\ NoLockS(p, r)
          /\ steps' = [steps EXCEPT ![r][s] = UpdateStatus(@, status)]
    /\ response' = "200"
    /\ UNCHANGED <<jobs, runs, session, pc, op, queue, external, hist, nextUuid>>

(* ---- AbortJobPipelineRun and DeleteJobPipelineRun ---- *)
\* AbortPipelineRun (apis/namespace_runs.py): the run and its steps are set
\* to ABORTED through the status updater; the run is revoked in collateral.
CouldAbort(row) == IsRun(row) /\ row.status \in OngoingStates

AbortPipelineRunUnit(j, r, could_abort) ==
    [Unit("AbortPipelineRun", j) EXCEPT
        !.run_uuids = IF could_abort THEN {r} ELSE {}]

\* The units AbortJobPipelineRun._transaction puts on the queue.
AbortJobPipelineRunUnits(j, r, could_abort, completed) ==
    <<Unit("AbortJobPipelineRun", j), AbortPipelineRunUnit(j, r, could_abort)>>
    \o (IF could_abort
        THEN <<UpdateJobPipelineRunUnit(j, "ABORTED", completed)>> ELSE <<>>)

\* An abort of a run that leaves the job's status alone.
AbortUnchecked(view, j, could_abort) == FALSE
\* AbortJobPipelineRun._transaction after the abort of the run: the call of
\* UpdateJobPipelineRun with ABORTED, and whether it finds the job completed.
AbortRechecked(view, j, could_abort) ==
    could_abort /\ JobCompleted(view, j, "ABORTED")

\* AbortJobPipelineRun._transaction for run r of job j.
AbortJobPipelineRunOn(p, j, r) ==
    /\ Accept(p)
    /\    LET could_abort == CouldAbort(runs[r])
              view == [runs EXCEPT ![r] =
                          IF could_abort THEN [@ EXCEPT !.status = "ABORTED"] ELSE @]
              completed == AbortRechecked(view, j, could_abort)
          IN /\ could_abort => NoLockR(p, r) /\ NoLockS(p, r)
             /\ IF could_abort /\ ~IsJob(jobs[j])
                THEN Rollback(p)
                ELSE /\ EndTransaction(p, NoJobsWritten,
                            [NoRunsWritten EXCEPT ![r] =
                                IF could_abort THEN view[r] ELSE Untouched],
                            [NoRunsWritten EXCEPT ![r] =
                                IF could_abort /\ steps[r] # NoRow
                                THEN UpdateStepsStatus(steps[r], "ABORTED")
                                ELSE Untouched],
                            AbortJobPipelineRunUnits(j, r, could_abort, completed),
                            [NoOp EXCEPT
                                !.kind = "AbortJobPipelineRun", !.job = j, !.run = r,
                                !.flip = completed,
                                !.ret = IF could_abort THEN "True" ELSE "False"],
                            IF completed THEN "flip" ELSE "commit")
                     /\ UNCHANGED <<store, external, hist>>
    /\ UNCHANGED nextUuid

AbortJobPipelineRunTransaction(p) ==
    \E j \in JobIds, r \in RunIds : AbortJobPipelineRunOn(p, j, r)

\* DeleteJobPipelineRun._transaction for run r of job j.
DeleteJobPipelineRunOn(p, j, r) ==
    /\ Accept(p)
    /\    LET found == IsJob(jobs[j]) /\ IsRun(runs[r])
              could_abort == CouldAbort(runs[r])
              view == [runs EXCEPT ![r] =
                          IF could_abort THEN [@ EXCEPT !.status = "ABORTED"] ELSE @]
              completed == AbortRechecked(view, j, could_abort)
          IN /\ found => NoLockR(p, r) /\ NoLockS(p, r)
             /\ EndTransaction(p, NoJobsWritten,
                    [NoRunsWritten EXCEPT ![r] = IF found THEN NoRow ELSE Untouched],
                    [NoRunsWritten EXCEPT ![r] = IF found THEN NoRow ELSE Untouched],
                    <<Unit("DeleteJobPipelineRun", j)>> \o
                    (IF found
                     THEN AbortJobPipelineRunUnits(j, r, could_abort, completed)
                     ELSE <<>>),
                    [NoOp EXCEPT
                        !.kind = "DeleteJobPipelineRun", !.job = j, !.run = r,
                        !.flip = found /\ completed,
                        !.ret = IF found THEN "True" ELSE "False"],
                    IF found /\ completed THEN "flip" ELSE "commit")
    /\ UNCHANGED <<store, external, hist, nextUuid>>

DeleteJobPipelineRunTransaction(p) ==
    \E j \in JobIds, r \in RunIds : DeleteJobPipelineRunOn(p, j, r)

(* ---- PauseCronJob and ResumeCronJob ---- *)
\* A select that takes no lock on the rows its filter matches.
FilteredRowNoLock(p, j, matches) == TRUE
\* with_for_update on a filtered query: the select waits for the row lock
\* of a row that matches, and tests the filter on the row as it is once the
\* lock is free; a row that does not match is passed over without a wait.
FilteredRowLock(p, j, matches) == matches => NoLockJ(p, j)

\* A filter on the status only.
PauseMatchesStarted(job) == job.kind = "job" /\ job.status = "STARTED"
\* filter_by(uuid, status="STARTED").filter(schedule.isnot(None))
PauseMatches(job) ==
    IsJob(job) /\ job.status = "STARTED" /\ job.schedule # NULL
\* filter_by(uuid, status="PAUSED").filter(schedule.isnot(None))
ResumeMatches(job) ==
    IsJob(job) /\ job.status = "PAUSED" /\ job.schedule # NULL

\* A next occurrence that may be the time of the call itself: the first
\* top of the hour at or after now.
ResumedTimeNotAfter(job, now) == ((now + HourLen - 1) \div HourLen) * HourLen
\* croniter(job.schedule, datetime.now(timezone.utc)).get_next(datetime)
ResumedTime(job, now) == CronNext(now)

\* str(): the time as the text the caller is given.
TimeStr(t) == ToString(t)

\* What one call does to the job row it finds, and what it returns.
PauseCronJobOn(job) ==
    IF PauseMatches(job)
    THEN [job |-> [job EXCEPT !.status = "PAUSED",
                              !.next_scheduled_time = NULL],
          wrote |-> TRUE, ret |-> "True"]
    ELSE [job |-> job, wrote |-> FALSE, ret |-> "False"]

ResumeCronJobOn(job, now) ==
    IF ResumeMatches(job)
    THEN [job |-> [job EXCEPT !.status = "STARTED",
                              !.next_scheduled_time =
                                  Some(ResumedTime(job, now))],
          wrote |-> TRUE, ret |-> TimeStr(ResumedTime(job, now))]
    ELSE [job |-> job, wrote |-> FALSE, ret |-> "None"]

\* The transaction of a pause or resume call with outcome out.  A call
\* that found no row has nothing to commit and returns at once.
CronJobTransaction(p, j, kind, now, out) ==
    /\ EndTransaction(p,
          IF out.wrote THEN [NoJobsWritten EXCEPT ![j] = out.job]
          ELSE NoJobsWritten,
          NoRunsWritten, NoRunsWritten,
          <<Unit(kind, j)>>,
          [NoOp EXCEPT !.kind = kind, !.job = j, !.ret = out.ret,
                       !.waited = (pc[p] = "cron_wait"),
                       !.now = IF out.wrote THEN now ELSE 0],
          "commit")
    /\ hist' = IF out.wrote THEN hist
               ELSE [hist EXCEPT !.calls =
                        Append(@, [kind |-> kind, job |-> j, now |-> 0,
                                   waited |-> (pc[p] = "cron_wait"),
                                   ret |-> out.ret])]
    /\ UNCHANGED <<store, external, nextUuid>>

\* The select of a pause or resume call found the row it matches locked
\* by another session: the call waits for the lock.
CronJobWait(p, j, kind) ==
    /\ pc' = Set(pc, p, "cron_wait")
    /\ op' = Set(op, p, [NoOp EXCEPT !.kind = kind, !.job = j])
    /\ UNCHANGED <<store, session, queue, response, external, hist, nextUuid>>

\* PauseCronJob._transaction
PauseCronJob(p) ==
    /\ Accept(p)
    /\ \E j \in JobIds :
          IF FilteredRowLock(p, j, PauseMatches(jobs[j]))
          THEN CronJobTransaction(p, j, "PauseCronJob", 0,
                                  PauseCronJobOn(jobs[j]))
          ELSE CronJobWait(p, j, "PauseCronJob")

\* ResumeCronJob._transaction, called at one of the times nows.
ResumeCronJobAt(p, nows) ==
    /\ Accept(p)
    /\ \E j \in JobIds, now \in nows :
          IF FilteredRowLock(p, j, ResumeMatches(jobs[j]))
          THEN CronJobTransaction(p, j, "ResumeCronJob", now,
                                  ResumeCronJobOn(jobs[j], now))
          ELSE CronJobWait(p, j, "ResumeCronJob")

\* The lock the select waited for is free: the filter is tested on the row
\* as it is now, and the transaction goes on from there.
CronJobLockedAt(p, nows) ==
    /\ pc[p] = "cron_wait"
    /\ NoLockJ(p, op[p].job)
    /\ \E now \in nows :
          CronJobTransaction(p, op[p].job, op[p].kind, now,
              IF op[p].kind = "PauseCronJob"
              THEN PauseCronJobOn(jobs[op[p].job])
              ELSE ResumeCronJobOn(jobs[op[p].job], now))
    /\ UNCHANGED opsLeft

(* ---- the properties ---- *)
TransactionPcs ==
    {"run_job", "abort_flush", "delete_flush", "flip", "cron_wait", "commit"}
CollateralPcs == {"collateral", "dispatch", "revert"}

SessionEmpty(p) ==
    wJobs[p] = NoJobsWritten /\ wRuns[p] = NoRunsWritten /\ wSteps[p] = NoRunsWritten

\* The step is handler p's transaction phase raising.
TransactionRaises(p) ==
    /\ ~op[p].committed
    /\ response' = "raised"
    /\ pc'[p] = "idle"
    /\ \/ pc[p] \in TransactionPcs
       \/ /\ pc[p] = "idle"
          /\ opsLeft' # opsLeft
          /\ \A q \in Procs : q < p => pc[q] # "idle"

\* C1: for every request, composed ones included, a handler is in a
\* collateral or revert phase only after its transaction has committed and
\* its session holds nothing uncommitted; the task queue is only ever acted
\* on by a handler in such a phase; and a step in which a transaction phase
\* raises leaves the store and the task queue as they were and ends the
\* request with an empty collateral queue, so no collateral or revert runs.
C1_CollateralOnlyAfterCommit ==
    [][/\ \A p \in Procs :
            pc'[p] \in CollateralPcs => op'[p].committed /\ SessionEmpty(p)'
       /\ external' # external =>
            \E p \in Procs : pc[p] \in CollateralPcs /\ op[p].committed
       /\ \A p \in Procs :
            TransactionRaises(p) =>
                /\ UNCHANGED <<store, external>>
                /\ queue'[p] = <<>>
                /\ SessionEmpty(p)']_vars

\* A confirming UpdateJob is sending the tasks of its inline RunJob, after
\* an earlier request's transaction phase raised.
C1_Witness ==
    \E p \in Procs :
        /\ op[p].kind = "UpdateJob" /\ pc[p] = "dispatch" /\ op[p].sent = 1
        /\ Len(queue[p]) = 1 /\ Head(queue[p]).unit = "RunJob"
        /\ response = "raised"

\* The uuids drawn for run rows of a transaction that was rolled back.
RolledBack ==
    {r \in RunIds : /\ r < nextUuid
                    /\ r \notin hist.created
                    /\ \A p \in Procs : wRuns[p][r] = Untouched}

\* C2: every task sent to the task queue carries the uuid of a run row that
\* was committed before the task was sent, and none carries a uuid drawn in a
\* transaction that was rolled back.
C2_DispatchedRunsAreCommitted ==
    [][\A i \in 1..Len(dispatched') :
          i > Len(dispatched) =>
             /\ dispatched'[i] \in hist.created
             /\ dispatched'[i] \notin RolledBack]_vars

\* A task was sent although an earlier batch was rolled back.
C2_Witness == dispatched # <<>> /\ RolledBack # {}

\* C3: the step that ends RunJob's revert leaves every run of the attempt
\* that still exists, and each of its steps, in FAILURE, leaves a one-off
\* job in FAILURE and a cron job's row as it was, and the request raises.
C3_RevertMarksFailure ==
    [][\A p \in Procs :
          pc[p] = "revert" /\ Head(queue[p]).unit = "RunJob" /\ pc'[p] # "revert" =>
             LET u == Head(queue[p])
                 attempt == {u.tasks[i] : i \in 1..Len(u.tasks)}
             IN /\ response' = "raised"
                /\ pc'[p] = "idle"
                /\ \A r \in attempt :
                      IsRun(runs'[r]) =>
                         /\ runs'[r].status = "FAILURE"
                         /\ \A s \in StepIds : steps'[r][s] = "FAILURE"
                /\ IsJob(jobs[u.job]) =>
                      jobs'[u.job] = IF u.schedule = NULL
                                     THEN [jobs[u.job] EXCEPT !.status = "FAILURE"]
                                     ELSE jobs[u.job]]_vars

\* A revert ran after one task of the batch had been sent and had reported
\* an end state: the job and both runs are in FAILURE.
C3_Witness ==
    /\ response = "raised"
    /\ \E j \in JobIds :
          /\ IsJob(jobs[j]) /\ jobs[j].schedule = NULL /\ jobs[j].status = "FAILURE"
          /\ \E r \in RunsOf(j) \cap hist.reported : runs[r].status = "FAILURE"
          /\ \E r \in RunsOf(j) \ DispatchedIds : runs[r].status = "FAILURE"

\* C4: a job's total_scheduled_pipeline_runs is the sum of the parameter-set
\* counts of its committed RunJob invocations, the run indexes assigned so
\* far are 0, 1, ..., total - 1 in this order, and the total never decreases.
C4_RunIndexesDense ==
    /\ [](\A j \in JobIds :
            IsJob(jobs[j]) =>
               /\ jobs[j].total_scheduled_pipeline_runs = hist.job[j].params
               /\ hist.job[j].assigned =
                     [i \in 1..jobs[j].total_scheduled_pipeline_runs |-> i - 1])
    /\ [][\A j \in JobIds :
            IsJob(jobs[j]) /\ IsJob(jobs'[j]) =>
               jobs'[j].total_scheduled_pipeline_runs >=
                  jobs[j].total_scheduled_pipeline_runs]_vars

\* Two batches were committed and the run of the first one was deleted
\* since: the one run left carries index 1.
C4_Witness ==
    \E j \in JobIds :
        /\ IsJob(jobs[j]) /\ Len(hist.job[j].batches) = 2
        /\ jobs[j].total_scheduled_pipeline_runs = 2
        /\ Cardinality(RunsOf(j)) = 1
        /\ \A r \in RunsOf(j) : runs[r].pipeline_run_index = 1

\* C5: total_scheduled_executions counts the committed RunJob invocations of
\* the job, the runs of the k-th committed batch carry job_run_index k - 1,
\* and no two runs of the job share a pipeline_run_index.
C5_RunJobSerialized ==
    \A j \in JobIds :
        IsJob(jobs[j]) =>
           LET batches == hist.job[j].batches
           IN /\ jobs[j].total_scheduled_executions = Len(batches)
              /\ \A k \in 1..Len(batches) : \A i \in 1..Len(batches[k]) :
                    IsRun(runs[batches[k][i]]) =>
                       runs[batches[k][i]].job_run_index = k - 1
              /\ \A r1 \in RunsOf(j) : \A r2 \in RunsOf(j) :
                    r1 # r2 =>
                       runs[r1].pipeline_run_index # runs[r2].pipeline_run_index

\* Two RunJob invocations on the same job are both past their commit.
C5_Witness ==
    /\ \A p \in Procs : op[p].kind = "RunJob" /\ op[p].committed
    /\ \E j \in JobIds :
          /\ \A p \in Procs : op[p].job = j
          /\ jobs[j].total_scheduled_executions = 2
          /\ Cardinality(RunsOf(j)) = 2

\* C6: a RunJob whose transaction finds the job ABORTED inserts no run row
\* and no step row, leaves both counters of the job as they are and hands no
\* task to its collateral.
C6_AbortedJobIsNotRun ==
    [][\A p \in Procs :
          /\ pc[p] = "run_job" /\ pc'[p] # "run_job"
          /\ IsJob(jobs[op[p].job]) /\ jobs[op[p].job].status = "ABORTED"
          => LET j == op[p].job
             IN /\ wRuns'[p] = NoRunsWritten
                /\ wSteps'[p] = NoRunsWritten
                /\ wJobs'[p][j] # Untouched =>
                      /\ wJobs'[p][j].total_scheduled_executions =
                            jobs[j].total_scheduled_executions
                      /\ wJobs'[p][j].total_scheduled_pipeline_runs =
                            jobs[j].total_scheduled_pipeline_runs
                /\ \A i \in 1..Len(queue'[p]) : queue'[p][i].tasks = <<>>]_vars

C8_AbortJobIdempotent ==
    [][\A p \in Procs : \A j \in JobIds :
          AbortJobTransaction(p, j) /\ IsJob(jobs[j])
             /\ jobs[j].status \in EndStates =>
                /\ response' = "None"
                /\ pc'[p] = "idle"
                /\ UNCHANGED <<store, external, session, queue>>]_vars

\* A second AbortJob on the job answered with nothing to do.
C8_Witness ==
    /\ response = "None"
    /\ revoked # {}
    /\ \E j \in JobIds : IsJob(jobs[j]) /\ jobs[j].status = "ABORTED"

\* C9: UpdateJobPipelineRun finds the job completed exactly when the status
\* is an end state, the job is one-off and no run of the job is PENDING or
\* STARTED once the run's update is applied; when its transaction ends, the
\* job is set to SUCCESS if it was found completed and is not in an end
\* state, and is left as it is otherwise.
C9_OneOffCompletion ==
    [][\A p \in Procs :
          /\ pc[p] = "idle" /\ op'[p].kind = "UpdateJobPipelineRun" =>
                LET j == op'[p].job
                    left == {r \in RunsOf(j) :
                                /\ runs[r].status \in OngoingStates
                                /\ r = op'[p].run => op'[p].status \in OngoingStates}
                IN op'[p].flip = (/\ op'[p].status \in EndStates
                                  /\ jobs[j].schedule = NULL
                                  /\ left = {})
          /\ UpdateJobPipelineRunTransaction(p) =>
                /\ jobs' = jobs
                /\ pc'[p] \in {"idle", "collateral"} => ~op'[p].flip
          /\ /\ op[p].kind = "UpdateJobPipelineRun"
             /\ pc[p] \in {"flip", "commit"} /\ pc'[p] \notin {"flip", "commit"}
             => LET j == op[p].job
                IN jobs'[j] =
                      IF op[p].flip /\ IsJob(jobs[j])
                            /\ jobs[j].status \notin EndStates
                      THEN [jobs[j] EXCEPT !.status = "SUCCESS"]
                      ELSE jobs[j]]_vars

\* A one-off job is SUCCESS although a run of it was reported as FAILURE.
C9_Witness ==
    \E j \in JobIds :
        /\ IsJob(jobs[j]) /\ jobs[j].schedule = NULL /\ jobs[j].status = "SUCCESS"
        /\ \E r \in RunsOf(j) \cap hist.reported : runs[r].status = "FAILURE"

\* C10: whenever no request is in flight, a one-off job that has runs, all
\* of them moved to an end state through UpdateJobPipelineRun, is in an end
\* state.
C10_OneOffJobCompletes ==
    (\A p \in Procs : pc[p] = "idle") =>
        \A j \in JobIds :
            /\ IsJob(jobs[j]) /\ jobs[j].schedule = NULL
            /\ RunsOf(j) # {}
            /\ \A r \in RunsOf(j) : runs[r].status \in EndStates /\ r \in hist.reported
            => jobs[j].status \in EndStates

\* C11: once a one-off job (schedule null) is SUCCESS, FAILURE or ABORTED,
\* no step of any operation changes its status again: as long as the row
\* exists its status stays what it was.
C11_OneOffTerminalOnce ==
    [][\A j \in JobIds :
          /\ IsJob(jobs[j]) /\ jobs[j].schedule = NULL
          /\ jobs[j].status \in EndStates
          /\ IsJob(jobs'[j])
          => jobs'[j].status = jobs[j].status]_vars

\* C12: a job whose status is SUCCESS, FAILURE or ABORTED has a null
\* next_scheduled_time, so the next-scheduled-job query never returns a job
\* in an end state.
C12_TerminalJobNotScheduled ==
    /\ \A j \in JobIds :
          IsJob(jobs[j]) /\ jobs[j].status \in EndStates
          => jobs[j].next_scheduled_time = NULL
    /\ \A j \in NextScheduledJob : jobs[j].status \notin EndStates

\* C13: every change of the status of an existing job follows an edge of the
\* job state machine: DRAFT to PENDING, PENDING to STARTED, DRAFT to
\* STARTED, STARTED to SUCCESS or FAILURE, STARTED to and from PAUSED for a
\* cron job only, and any non-terminal status to ABORTED.
C13_JobStatusEdges ==
    [][LET edges ==
               {<<"DRAFT", "PENDING">>, <<"PENDING", "STARTED">>,
                <<"DRAFT", "STARTED">>, <<"STARTED", "SUCCESS">>,
                <<"STARTED", "FAILURE">>, <<"STARTED", "PAUSED">>,
                <<"PAUSED", "STARTED">>}
                   \cup {<<s, "ABORTED">> :
                            s \in {"DRAFT", "PENDING", "STARTED", "PAUSED"}}
       IN \A j \in JobIds :
             /\ IsJob(jobs[j]) /\ IsJob(jobs'[j])
             /\ jobs'[j].status # jobs[j].status
             => /\ <<jobs[j].status, jobs'[j].status>> \in edges
                /\ "PAUSED" \in {jobs[j].status, jobs'[j].status}
                      => jobs[j].schedule # NULL]_vars

\* C14: a pruning with max_retained_pipeline_runs < 0 changes nothing and
\* does not fail.  Otherwise the runs it asks the cleanup endpoint to
\* delete are exactly the runs of the job that are in an end state with
\* pipeline_run_index <= (total_scheduled_pipeline_runs - 1) -
\* max_retained_pipeline_runs: no other run is deleted, and the job and the
\* runs and steps that stay are left as they were.
C14_PrunerDeletes ==
    [][\A p \in Procs :
          UpdateJobPipelineRunCollateral(p)
          => LET j == Head(queue[p]).job
                 job == jobs[j]
                 eligible ==
                     {r \in RunIds :
                        /\ IsRun(runs[r]) /\ runs[r].job_uuid = j
                        /\ runs[r].status \in {"SUCCESS", "FAILURE", "ABORTED"}
                        /\ runs[r].pipeline_run_index <=
                              (job.total_scheduled_pipeline_runs - 1)
                                  - job.max_retained_pipeline_runs}
                 deleted == {r \in RunIds : IsRun(runs[r]) /\ ~IsRun(runs'[r])}
             IN IsJob(job) =>
                  /\ job.max_retained_pipeline_runs < 0
                        => /\ RunsToBeDeleted(j) = {}
                           /\ UNCHANGED store
                           /\ response' # "raised"
                  /\ job.max_retained_pipeline_runs >= 0
                        => /\ RunsToBeDeleted(j) = eligible
                           /\ deleted \subseteq eligible
                  /\ jobs' = jobs
                  /\ \A r \in RunIds \ deleted :
                        runs'[r] = runs[r] /\ steps'[r] = steps[r]
                  /\ \A r \in deleted : steps'[r] = NoRow]_vars

\* The spec's example: max_retained_pipeline_runs is 2, five runs with the
\* indexes 0..4 were scheduled and have all ended; the pruning that the last
\* report set off has deleted the runs with the indexes 0, 1, 2 and the runs
\* with the indexes 3 and 4 are still there.
C14_Witness ==
    \E j \in JobIds :
        /\ \A p \in Procs : pc[p] = "idle"
        /\ response = "200"
        /\ IsJob(jobs[j])
        /\ jobs[j].max_retained_pipeline_runs = 2
        /\ jobs[j].total_scheduled_pipeline_runs = 5
        /\ hist.reported = 1..5
        /\ \A r \in 1..3 : runs[r] = NoRow
        /\ \A r \in 4..5 : /\ IsRun(runs[r]) /\ runs[r].job_uuid = j
                             /\ runs[r].pipeline_run_index = r - 1
                             /\ runs[r].status \in EndStates

\* C15: a pruning never deletes a run while a run of the same job with a
\* lower pipeline_run_index is still PENDING or STARTED.
C15_PruningInOrder ==
    [][\A r \in RunIds :
          IsRun(runs[r]) /\ ~IsRun(runs'[r])
          => \A q \in RunIds :
                /\ IsRun(runs[q]) /\ runs[q].job_uuid = runs[r].job_uuid
                /\ runs[q].pipeline_run_index < runs[r].pipeline_run_index
                => runs[q].status \notin OngoingStates]_vars

\* C16: the collateral of RunJob and of UpdateJobPipelineRun never fails
\* because of the pruning: the step that prunes neither raises nor leads to
\* the revert of the operation.
C16_PruningNeverFailsOperation ==
    [][\A p \in Procs :
          /\ pc[p] = "collateral"
          /\ Head(queue[p]).unit \in {"RunJob", "UpdateJobPipelineRun"}
          => /\ pc'[p] # "revert"
             /\ ~(pc'[p] = "idle" /\ response' = "raised")]_vars

\* C17: the tasks sent for the job are pairwise distinct and are uuids of
\* runs the confirmation created, never more than one per parameter set;
\* and whenever no request is in flight and each of the job's three runs
\* has reported SUCCESS through UpdateJobPipelineRun, three tasks have been
\* sent, the job is SUCCESS and the stale environment images have been
\* processed exactly once on behalf of these reports.
C17_EndToEnd ==
    /\ \A i, k \in 1..Len(dispatched) : dispatched[i] = dispatched[k] => i = k
    /\ DispatchedIds \subseteq hist.created
    /\ \A j \in JobIds :
          /\ IsJob(jobs[j]) /\ Len(jobs[j].parameters) = 3
          /\ jobs[j].schedule = NULL
          /\ \A p \in Procs : pc[p] = "idle"
          /\ Cardinality(hist.reported) = 3
          => /\ Len(dispatched) = 3
             /\ DispatchedIds = hist.created
             /\ jobs[j].status = "SUCCESS"
             /\ hist.stale = 1

\* C18: the schedule, the parameters and max_retained_pipeline_runs of a job
\* change only while the job is a DRAFT or an ongoing cron job (a cron job
\* that is STARTED or PAUSED): a one-off job that is no longer a draft and a
\* job in an end state keep them.  A request that is rejected leaves every
\* field of the job as it was.
C18_EditsOnlyDraftOrOngoingCron ==
    [][\A j \in JobIds :
          /\ IsJob(jobs[j]) /\ IsJob(jobs'[j])
             /\ jobs[j].status # "DRAFT"
             /\ ~(jobs[j].schedule # NULL
                     /\ jobs[j].status \in {"STARTED", "PAUSED"})
             => /\ jobs'[j].schedule = jobs[j].schedule
                /\ jobs'[j].parameters = jobs[j].parameters
                /\ jobs'[j].max_retained_pipeline_runs =
                      jobs[j].max_retained_pipeline_runs
          /\ (\E p \in Procs : UpdateJob(p, AllUpdateRequests)) /\ response' = "raised"
             => jobs' = jobs]_vars

\* C19: a call of UpdateJob that carries a next_scheduled_time is accepted
\* only if the job is a DRAFT and the call carries no cron schedule; in
\* every other case it raises and the job row, its schedule and its
\* next_scheduled_time included, stays as it was.  When it is accepted the
\* job is written, and then committed, as a one-off job (schedule null)
\* whose next_scheduled_time is the one given.
C19_NextScheduledTimeOnlyOnDraft ==
    [][\A p \in Procs, j \in JobIds :
          \* accepted: only on a draft, only without cron, as a one-off job
          /\ \A a \in AllUpdateRequests :
                /\ a.next_scheduled_time # NULL
                /\ pc[p] = "idle" /\ pc'[p] = "commit"
                /\ UpdateJob(p, {a})
                => /\ jobs[j].status = "DRAFT" /\ a.cron = NULL
                   /\ wJobs'[p][j].schedule = NULL
                   /\ wJobs'[p][j].next_scheduled_time = a.next_scheduled_time
                   /\ jobs' = jobs
          \* on a draft and without cron it is accepted, unless another
          \* field of the call is rejected
          /\ \A a \in AllUpdateRequests :
                /\ a.next_scheduled_time # NULL /\ a.cron = NULL
                /\ ~a.confirm_draft
                /\ a.max_retained_pipeline_runs # Some(0 - 2)
                /\ IsJob(jobs[j]) /\ jobs[j].status = "DRAFT"
                /\ UpdateJob(p, {a})
                => pc'[p] = "commit"
          \* not accepted: raised, nothing written
          /\ pc[p] = "idle" /\ pc'[p] # "commit"
                /\ UpdateJob(p, AllUpdateRequests)
             => /\ pc'[p] = "idle" /\ response' = "raised"
                /\ wJobs'[p][j] = Untouched
                /\ jobs' = jobs
          \* the commit writes the row
          /\ pc[p] = "commit" /\ op[p].kind = "UpdateJob" /\ pc'[p] # "commit"
             => (wJobs[p][j] # Untouched => jobs'[j] = wJobs[p][j])]_vars

\* A draft with a cron schedule has been rewritten, in a session about to
\* commit, as a one-off job with a next_scheduled_time.
C19_Witness ==
    \E p \in Procs, j \in JobIds :
        /\ pc[p] = "commit" /\ op[p].kind = "UpdateJob"
        /\ IsJob(jobs[j]) /\ jobs[j].status = "DRAFT" /\ jobs[j].schedule # NULL
        /\ wJobs[p][j] # Untouched
        /\ wJobs[p][j].schedule = NULL
        /\ wJobs[p][j].next_scheduled_time # NULL

C21_ConfirmRejectedWithoutEffect ==
    [][\A p \in Procs, j \in JobIds :
          LET Rejected(error) ==
                  /\ response' = "raised" /\ hist'.raised = error
                  /\ pc'[p] = "idle" /\ queue'[p] = <<>>
                  /\ wJobs'[p] = NoJobsWritten
                  /\ wRuns'[p] = NoRunsWritten
                  /\ wSteps'[p] = NoRunsWritten
                  /\ jobs' = jobs /\ runs' = runs /\ steps' = steps
                  /\ dispatched' = dispatched /\ revoked' = revoked
          IN pc[p] = "idle" /\ IsJob(jobs[j])
             => \A a \in {b \in AllUpdateRequests : b.confirm_draft} :
                   IF jobs[j].status # "DRAFT"
                   THEN UpdateJob(p, {a}) => Rejected("ValueError")
                   ELSE UpdateJobImages(p, {a}, {TRUE})
                           => Rejected("ImageNotFound")]_vars

\* The confirmation of a draft that is to run now, with two parameter sets,
\* has raised ImageNotFound: the job is still the draft and no run exists.
C21_Witness ==
    \E j \in JobIds :
        /\ response = "raised" /\ hist.raised = "ImageNotFound"
        /\ IsJob(jobs[j]) /\ jobs[j].status = "DRAFT"
        /\ jobs[j].schedule = NULL /\ jobs[j].next_scheduled_time = NULL
        /\ Len(jobs[j].parameters) = 2
        /\ \A r \in RunIds : runs[r] = NoRow
        /\ \A p \in Procs : pc[p] = "idle"
        /\ dispatched = <<>>

\* C22: CreateJob for a uuid no row has.  A spec with both cron_schedule and
\* scheduled_start, or with an invalid cron expression, raises a ValueError
\* and nothing is written.  Any other spec is committed as a DRAFT job with
\* total_scheduled_executions 0, the schedule given, and as
\* next_scheduled_time: null when neither is given; the time given when
\* only scheduled_start is; with only cron_schedule "0 * * * *", the first
\* top of the hour strictly after the time of the call.
C22_CreateJobSchedule ==
    [][\A p \in Procs, j \in JobIds :
          pc[p] = "idle" /\ ~IsJob(jobs[j])
          => \A cron \in {NULL, Some(CronExpr), Some(BadCron)},
                start \in {NULL} \cup {Some(t) : t \in Clock}, now \in Clock :
                CreateJobAt(p, {cron}, {start}, ParamLists, {now})
                => IF (cron # NULL /\ start # NULL) \/ cron = Some(BadCron)
                   THEN /\ response' = "raised"
                        /\ hist'.raised = "ValueError"
                        /\ jobs' = jobs /\ runs' = runs /\ steps' = steps
                        /\ pc'[p] = "idle" /\ queue'[p] = <<>>
                   ELSE /\ IsJob(jobs'[j])
                        /\ jobs'[j].status = "DRAFT"
                        /\ jobs'[j].total_scheduled_executions = 0
                        /\ jobs'[j].schedule = cron
                        /\ cron = NULL => jobs'[j].next_scheduled_time = start
                        /\ cron # NULL =>
                              \E t \in jobs'[j].next_scheduled_time :
                                 /\ jobs'[j].next_scheduled_time = {t}
                                 /\ t > now /\ t % HourLen = 0
                                 /\ \A u \in (now + 1)..(t - 1) :
                                       u % HourLen # 0]_vars

\* A cron job created at a top of the hour is a DRAFT whose
\* next_scheduled_time is the next top of the hour.
C22_Witness ==
    \E j \in JobIds :
        /\ IsJob(jobs[j]) /\ jobs[j].status = "DRAFT"
        /\ jobs[j].schedule = Some(CronExpr)
        /\ jobs[j].next_scheduled_time = Some(2 * HourLen)
        /\ jobs[j].total_scheduled_executions = 0
        /\ response = "job"

\* C23: a CreateJob request whose collateral (locking the environment
\* images) fails goes on to its revert, and when the request has ended
\* raised after its commit, the store holds no job row with the uuid, and
\* no run or step row of that job, whatever other requests did to the
\* draft in between.  A CreateJob request ends either with the job or
\* raised.
C23_CreateJobRevertDeletesDraft ==
    [][\A p \in Procs :
          op[p].kind = "CreateJob" /\ pc[p] # "idle" /\ pc'[p] # pc[p]
          => LET j == op[p].job
             IN /\ pc[p] = "collateral"
                   => \/ pc'[p] = "revert" /\ jobs' = jobs
                      \/ pc'[p] = "idle" /\ response' = "job" /\ jobs' = jobs
                /\ pc[p] = "revert"
                   => /\ pc'[p] = "idle" /\ response' = "raised"
                      /\ jobs'[j] = NoRow
                      /\ \A r \in DOMAIN runs' :
                            IsRun(runs'[r]) => runs'[r].job_uuid # j
                      /\ \A r \in RunsOf(j) : steps'[r] = NoRow]_vars

\* The revert of a CreateJob has deleted a job that had been confirmed and
\* run in the meantime: its tasks were sent, its rows are gone.
C23_Witness ==
    \E j \in JobIds :
        /\ response = "raised" /\ jobs[j] = NoRow /\ j \in hist.used
        /\ hist.job[j].batches # <<>>
        /\ \A r \in RunIds : runs[r] = NoRow /\ steps[r] = NoRow
        /\ dispatched # <<>>
        /\ \A p \in Procs : pc[p] = "idle"

\* The step in which the select of handler p's pause or resume call of the
\* given kind returns, at once or after a wait.
CronSelectReturns(p, kind) ==
    \/ pc[p] = "idle" /\ pc'[p] # "cron_wait"
          /\ (IF kind = "PauseCronJob" THEN PauseCronJob(p)
              ELSE ResumeCronJobAt(p, Clock))
    \/ pc[p] = "cron_wait" /\ op[p].kind = kind /\ pc'[p] # "cron_wait"

\* C24: PauseCronJob succeeds exactly when the row with the uuid exists, is
\* STARTED and has a schedule: the session then holds the row with status
\* PAUSED and next_scheduled_time null and every other column as it was,
\* and the commit writes that row, touches no run or step and returns
\* True.  In every other case the call returns False in the same step,
\* without raising, and the store and the session are as they were.
C24_PauseCronJob ==
    [][\A p \in Procs, j \in JobIds :
          /\ CronSelectReturns(p, "PauseCronJob")
             => IF IsJob(jobs[j]) /\ jobs[j].status = "STARTED"
                   /\ jobs[j].schedule # NULL
                THEN /\ pc'[p] = "commit" /\ op'[p].ret = "True"
                     /\ wJobs'[p][j] =
                           [jobs[j] EXCEPT !.status = "PAUSED",
                                           !.next_scheduled_time = NULL]
                     /\ wRuns'[p] = NoRunsWritten
                     /\ wSteps'[p] = NoRunsWritten
                     /\ jobs' = jobs /\ runs' = runs /\ steps' = steps
                ELSE /\ pc'[p] = "idle" /\ response' = "False"
                     /\ wJobs'[p] = NoJobsWritten
                     /\ jobs' = jobs /\ runs' = runs /\ steps' = steps
                     /\ external' = external
          /\ pc[p] = "commit" /\ op[p].kind = "PauseCronJob"
                /\ pc'[p] # "commit"
             => /\ pc'[p] = "idle" /\ response' = "True"
                /\ jobs'[j] = [jobs[j] EXCEPT !.status = "PAUSED",
                                              !.next_scheduled_time = NULL]
                /\ runs' = runs /\ steps' = steps
                /\ external' = external]_vars

\* A STARTED cron job has been paused: the committed row is PAUSED without
\* a next_scheduled_time and the call returned True.
C24_Witness ==
    \E j \in JobIds :
        /\ hist.first[j].kind = "job" /\ hist.first[j].status = "STARTED"
        /\ hist.calls = <<[kind |-> "PauseCronJob", job |-> j, now |-> 0,
                           waited |-> FALSE, ret |-> "True"]>>
        /\ response = "True"
        /\ jobs[j].status = "PAUSED" /\ jobs[j].next_scheduled_time = NULL
        /\ jobs[j].schedule = Some(CronExpr)

\* C25: ResumeCronJob succeeds exactly when the row with the uuid exists, is
\* PAUSED and has a schedule: called at time T, the session then holds the
\* row with status STARTED and, as next_scheduled_time, the first top of
\* the hour strictly after T, every other column as it was; the commit
\* writes that row and the call returns that time as text.  In every other
\* case the call returns None in the same step and the store and the
\* session are as they were.
C25_ResumeCronJob ==
    [][\A p \in Procs, j \in JobIds :
          /\ CronSelectReturns(p, "ResumeCronJob")
             => IF IsJob(jobs[j]) /\ jobs[j].status = "PAUSED"
                   /\ jobs[j].schedule # NULL
                THEN /\ pc'[p] = "commit"
                     /\ \E t \in 0..(3 * HourLen) :
                           /\ wJobs'[p][j] =
                                 [jobs[j] EXCEPT !.status = "STARTED",
                                                 !.next_scheduled_time = {t}]
                           /\ t > op'[p].now /\ t % HourLen = 0
                           /\ \A u \in (op'[p].now + 1)..(t - 1) :
                                 u % HourLen # 0
                           /\ op'[p].ret = ToString(t)
                     /\ op'[p].now \in Clock
                     /\ wRuns'[p] = NoRunsWritten
                     /\ wSteps'[p] = NoRunsWritten
                     /\ jobs' = jobs /\ runs' = runs /\ steps' = steps
                ELSE /\ pc'[p] = "idle" /\ response' = "None"
                     /\ wJobs'[p] = NoJobsWritten
                     /\ jobs' = jobs /\ runs' = runs /\ steps' = steps
                     /\ external' = external
          /\ pc[p] = "commit" /\ op[p].kind = "ResumeCronJob"
                /\ pc'[p] # "commit"
             => /\ pc'[p] = "idle" /\ response' = op[p].ret
                /\ jobs'[j] = wJobs[p][j]
                /\ jobs'[j].status = "STARTED"
                /\ runs' = runs /\ steps' = steps
                /\ external' = external]_vars

\* A PAUSED cron job has been resumed at a top of the hour: it is STARTED,
\* its next_scheduled_time is the following top of the hour and the call
\* returned that time.
C25_Witness ==
    \E j \in JobIds :
        /\ hist.first[j].kind = "job" /\ hist.first[j].status = "PAUSED"
        /\ hist.calls = <<[kind |-> "ResumeCronJob", job |-> j,
                           now |-> HourLen, waited |-> FALSE,
                           ret |-> ToString(2 * HourLen)]>>
        /\ response = ToString(2 * HourLen)
        /\ jobs[j].status = "STARTED"
        /\ jobs[j].next_scheduled_time = Some(2 * HourLen)

\* The pause and resume calls of a list made one after the other on a job
\* row: whether each returns what the list says, and the row they leave.
RECURSIVE SerialCronCalls(_, _)
SerialCronCalls(job, calls) ==
    IF calls = <<>> THEN [agrees |-> TRUE, job |-> job]
    ELSE LET c == Head(calls)
             out == IF c.kind = "PauseCronJob" THEN PauseCronJobOn(job)
                    ELSE ResumeCronJobOn(job, c.now)
         IN IF out.ret # c.ret THEN [agrees |-> FALSE, job |-> job]
            ELSE SerialCronCalls(out.job, Tail(calls))

\* C26: with pause and resume calls arriving while others are in progress,
\* the calls that have returned or committed so far, taken one after the
\* other in that order on the job row the store started with, return what
\* the calls returned and leave the row the store holds now.  In
\* particular no two calls of the same kind that follow each other both
\* succeed, and at most one session at a time holds a written job row.
C26_PauseResumeSerial ==
    /\ \A j \in JobIds :
          LET serial == SerialCronCalls(hist.first[j], hist.calls)
          IN serial.agrees /\ serial.job = jobs[j]
    /\ \A i \in 1..(Len(hist.calls) - 1) :
          hist.calls[i].kind = hist.calls[i + 1].kind
          => \/ hist.calls[i].ret \in {"False", "None"}
             \/ hist.calls[i + 1].ret \in {"False", "None"}
    /\ \A p, q \in Procs, j \in JobIds :
          wJobs[p][j] # Untouched /\ wJobs[q][j] # Untouched => p = q

\* Two pause calls were in progress on a STARTED cron job at the same time,
\* one waiting for the row the other had written; the first returned True
\* and the second, once the first had committed, False.
C26_Witness ==
    \E j \in JobIds :
        /\ hist.first[j].kind = "job" /\ hist.first[j].status = "STARTED"
        /\ hist.calls = <<[kind |-> "PauseCronJob", job |-> j, now |-> 0,
                           waited |-> FALSE, ret |-> "True"],
                          [kind |-> "PauseCronJob", job |-> j, now |-> 0,
                           waited |-> TRUE, ret |-> "False"]>>
        /\ \A p \in Procs : pc[p] = "idle"
        /\ jobs[j].status = "PAUSED"

\* C27: DeleteJob on a uuid without a row returns False and changes
\* nothing.  On an existing job, the commit of the request leaves no job
\* row, no run row and no step row of the job; every run of the job that
\* is PENDING or STARTED when the commit deletes it is among the runs the
\* request revokes and signals to abort in its collateral; and the
\* collateral processes the stale images of the project.
C27_DeleteJob ==
    [][\A p \in Procs :
          LET j == op[p].job
          IN /\ pc[p] = "idle" /\ DeleteJobTransaction(p)
                /\ (\A k \in JobIds : ~IsJob(jobs[k]))
                => /\ pc'[p] = "idle" /\ response' = "False"
                   /\ store' = store /\ external' = external
             /\ pc[p] = "commit" /\ op[p].kind = "DeleteJob"
                   /\ op[p].ret = "True" /\ pc'[p] # "commit"
                => /\ jobs'[j] = NoRow
                   /\ \A r \in DOMAIN runs' :
                         IsRun(runs'[r]) => runs'[r].job_uuid # j
                   /\ \A r \in RunsOf(j) : steps'[r] = NoRow
                   /\ \A r \in RunsOf(j) :
                         runs[r].status \in OngoingStates
                         => \E i \in 1..Len(queue'[p]) :
                               /\ queue'[p][i].unit = "AbortJob"
                               /\ r \in queue'[p][i].run_uuids
                   /\ \E i \in 1..Len(queue'[p]) :
                         queue'[p][i].unit = "DeleteJob" /\ queue'[p][i].project
             /\ pc[p] = "collateral" /\ op[p].kind = "DeleteJob"
                   /\ pc'[p] # "collateral"
                => /\ Head(queue[p]).unit = "AbortJob"
                      => Head(queue[p]).run_uuids \subseteq revoked'
                   /\ Head(queue[p]).unit = "DeleteJob"
                      => hist'.stale = hist.stale + 1]_vars

C29_CollateralAlwaysPrunes ==
    [][\A p \in Procs :
          /\ pc[p] = "idle" /\ op'[p].kind = "UpdateJobPipelineRun"
                /\ queue'[p] # <<>> =>
                LET j == op'[p].job
                    left == {r \in RunsOf(j) :
                                /\ runs[r].status \in OngoingStates
                                /\ r = op'[p].run => op'[p].status \in OngoingStates}
                IN Head(queue'[p]).completed =
                      (/\ op'[p].status \in EndStates
                       /\ jobs[j].schedule = NULL
                       /\ left = {})
          /\ op[p].kind = "UpdateJobPipelineRun"
                /\ UpdateJobPipelineRunCollateral(p) =>
                hist'.stale = IF Head(queue[p]).completed
                              THEN hist.stale + 1 ELSE hist.stale
          /\ /\ \/ op[p].kind = "UpdateJobPipelineRun"
                \/ pc[p] = "idle" /\ UpdateJobPipelineRunTransaction(p)
             /\ pc'[p] = "idle" /\ response' = "200"
             => pc[p] = "collateral"]_vars

\* C29, amended: the collateral processes the stale environment images
\* exactly when the transaction found the job completed, and it prunes the
\* job's runs after every update to an end state that returns 200; an
\* update to STARTED returns 200 without any collateral.
C29_CollateralPrunesAfterEndState ==
    [][\A p \in Procs :
          /\ pc[p] = "idle" /\ op'[p].kind = "UpdateJobPipelineRun"
                /\ queue'[p] # <<>> =>
                LET j == op'[p].job
                    left == {r \in RunsOf(j) :
                                /\ runs[r].status \in OngoingStates
                                /\ r = op'[p].run => op'[p].status \in OngoingStates}
                IN Head(queue'[p]).completed =
                      (/\ op'[p].status \in EndStates
                       /\ jobs[j].schedule = NULL
                       /\ left = {})
          /\ op[p].kind = "UpdateJobPipelineRun"
                /\ UpdateJobPipelineRunCollateral(p) =>
                hist'.stale = IF Head(queue[p]).completed
                              THEN hist.stale + 1 ELSE hist.stale
          /\ op[p].kind = "UpdateJobPipelineRun"
                /\ pc'[p] = "idle" /\ response' = "200" =>
                (pc[p] = "collateral") = (op[p].status \in EndStates)
          /\ pc[p] = "idle" /\ UpdateJobPipelineRun(p, EndStates) =>
                pc'[p] # "idle" \/ response' = "raised"
          /\ pc[p] = "idle" /\ UpdateJobPipelineRun(p, {"STARTED"}) =>
                pc'[p] # "collateral"]_vars

\* The last run of a one-off job is reported in an end state: the update is
\* committed, the job found completed, and the collateral has runs to prune.
C29_Witness ==
    \E p \in Procs :
        /\ pc[p] = "collateral" /\ op[p].kind = "UpdateJobPipelineRun"
        /\ Head(queue[p]).completed
        /\ RunsToBeDeleted(op[p].job) # {}

\* C30: a RunJob transaction on a stored job inserts one run per parameter
\* set, in the order of the job's parameters: the i-th run (0-based) has
\* the i-th parameter set, job_run_index equal to the job's
\* total_scheduled_executions before the call, job_run_pipeline_run_index
\* i, status PENDING and one PENDING step row per step; the job's
\* total_scheduled_executions is one more after the loop.  The run of the
\* k-th committed batch at position i keeps the pair (k - 1, i) for as long
\* as it is stored, so no two runs ever created for the job share the pair.
C30_RunJobBatchIndexes ==
    /\ [][\A p \in Procs :
            pc[p] = "run_job" /\ RunJobTransaction(p) /\ pc'[p] = "commit" =>
               LET j == op[p].job
                   job == jobs[j]
                   n == Len(job.parameters)
                   new == {r \in RunIds : wRuns[p][r] = Untouched
                                          /\ wRuns'[p][r] # Untouched}
               IN /\ new = {nextUuid + i : i \in 0..(n - 1)}
                  /\ \A i \in 0..(n - 1) :
                        LET run == wRuns'[p][nextUuid + i]
                        IN /\ IsRun(run) /\ run.job_uuid = j
                           /\ run.status = "PENDING"
                           /\ run.parameters = job.parameters[i + 1]
                           /\ run.job_run_index = job.total_scheduled_executions
                           /\ run.job_run_pipeline_run_index = i
                           /\ wSteps'[p][nextUuid + i] =
                                 [s \in StepIds |-> "PENDING"]
                  /\ wJobs'[p][j].total_scheduled_executions =
                        job.total_scheduled_executions + 1]_vars
    /\ [](\A j \in JobIds :
            IsJob(jobs[j]) =>
               LET batches == hist.job[j].batches
               IN /\ \A k \in 1..Len(batches) : \A i \in 1..Len(batches[k]) :
                        LET run == runs[batches[k][i]]
                        IN IsRun(run) =>
                              /\ run.job_run_index = k - 1
                              /\ run.job_run_pipeline_run_index = i - 1
                  /\ \A r1 \in RunsOf(j) : \A r2 \in RunsOf(j) :
                        r1 # r2 =>
                           <<runs[r1].job_run_index,
                             runs[r1].job_run_pipeline_run_index>> #
                           <<runs[r2].job_run_index,
                             runs[r2].job_run_pipeline_run_index>>)
    /\ [][\A r \in RunIds :
            IsRun(runs[r]) /\ IsRun(runs'[r]) =>
               /\ runs'[r].job_run_index = runs[r].job_run_index
               /\ runs'[r].job_run_pipeline_run_index =
                     runs[r].job_run_pipeline_run_index]_vars

\* A batch of two runs is committed: the pairs are (0, 0) and (0, 1), both
\* runs and their steps are PENDING, and the job counts one execution.
C30_Witness ==
    \E j \in JobIds :
        /\ IsJob(jobs[j]) /\ jobs[j].total_scheduled_executions = 1
        /\ Len(jobs[j].parameters) = 2
        /\ \E r1 \in RunsOf(j), r2 \in RunsOf(j) :
              /\ runs[r1].job_run_index = 0 /\ runs[r2].job_run_index = 0
              /\ runs[r1].job_run_pipeline_run_index = 0
              /\ runs[r2].job_run_pipeline_run_index = 1
              /\ runs[r1].parameters = jobs[j].parameters[1]
              /\ runs[r2].parameters = jobs[j].parameters[2]
              /\ runs[r1].status = "PENDING" /\ runs[r2].status = "PENDING"
              /\ \A s \in StepIds : steps[r1][s] = "PENDING" /\ steps[r2][s] = "PENDING"

\* C31: no run is sent to the task queue twice.  The tasks of a RunJob are
\* the uuids of the run rows its transaction inserted, fixed before the
\* commit; the send loop is entered only from the pruning step of the
\* collateral and sends, in each turn, a committed run not sent before; when
\* the loop ends without raising, every run of the batch has been sent
\* exactly once.
C31_NoDuplicateLaunch ==
    /\ [](\A i \in 1..Len(dispatched) : \A k \in 1..Len(dispatched) :
             dispatched[i] = dispatched[k] => i = k)
    /\ [][\A p \in Procs :
             /\ pc[p] = "commit" /\ Commit(p) =>
                   \A i \in 1..Len(queue[p]) :
                      queue[p][i].unit = "RunJob" =>
                         {queue[p][i].tasks[k] : k \in 1..Len(queue[p][i].tasks)}
                            = Inserted(p)
             /\ pc[p] # "dispatch" /\ pc'[p] = "dispatch" =>
                   /\ RunJobCollateral(p)
                   /\ Head(queue[p]).tasks # <<>>
                   /\ dispatched' = dispatched
             /\ pc[p] = "dispatch" /\ <<pc[p], op[p]>> # <<pc'[p], op'[p]>>
                   /\ dispatched' # dispatched =>
                   \E t \in hist.created :
                      /\ dispatched' = Append(dispatched, t)
                      /\ \A i \in 1..Len(dispatched) : dispatched[i] # t
                      /\ \E k \in 1..Len(Head(queue[p]).tasks) :
                            Head(queue[p]).tasks[k] = t
             /\ pc[p] = "dispatch" /\ pc'[p] \notin {"dispatch", "revert"} =>
                   LET tasks == Head(queue[p]).tasks
                   IN \A k \in 1..Len(tasks) :
                         Cardinality({i \in 1..Len(dispatched') :
                                         dispatched'[i] = tasks[k]}) = 1]_vars

\* A batch of two runs was sent and its request has returned: two
\* different tasks, both runs of the job's first batch.
C31_Witness ==
    /\ Len(dispatched) = 2 /\ dispatched[1] # dispatched[2]
    /\ \A p \in Procs : pc[p] = "idle"
    /\ \E j \in JobIds :
          /\ IsJob(jobs[j]) /\ Len(hist.job[j].batches) = 1
          /\ hist.job[j].batches[1] = dispatched

\* C32: whenever no request is in progress, a job in ABORTED has no run in
\* PENDING or STARTED, and no task is sent for a run of a job that is
\* ABORTED in the store.
C32_AbortedJobHasNoOngoingRun ==
    /\ []((\A p \in Procs : pc[p] = "idle") =>
            \A j \in JobIds :
               IsJob(jobs[j]) /\ jobs[j].status = "ABORTED" =>
                  \A r \in RunsOf(j) : runs[r].status \notin OngoingStates)
    /\ [][\A i \in 1..Len(dispatched') :
             i > Len(dispatched) =>
                LET r == dispatched'[i]
                IN IsRun(runs[r]) /\ IsJob(jobs[runs[r].job_uuid]) =>
                      jobs[runs[r].job_uuid].status # "ABORTED"]_vars

\* C33: a PAUSED job has no next_scheduled_time, so NextScheduledJob.get
\* never returns a paused job.
C33_PausedJobNotScheduled ==
    \A j \in JobIds :
        IsJob(jobs[j]) /\ jobs[j].status = "PAUSED" =>
           /\ jobs[j].next_scheduled_time = NULL
           /\ j \notin NextScheduledJob

\* C34: a RunJob transaction that finds the job in DRAFT, PAUSED, SUCCESS
\* or FAILURE inserts no run, leaves the job's counters as they are and
\* hands no task to its collateral.
C34_RunJobOnlyWhenDue ==
    [][\A p \in Procs :
          /\ pc[p] = "run_job" /\ RunJobTransaction(p)
          /\ IsJob(jobs[op[p].job])
          /\ jobs[op[p].job].status \in {"DRAFT", "PAUSED", "SUCCESS", "FAILURE"}
          => /\ wRuns'[p] = NoRunsWritten
             /\ nextUuid' = nextUuid
             /\ wJobs'[p][op[p].job] \in
                   {Untouched,
                    [jobs[op[p].job] EXCEPT !.status = jobs[op[p].job].status]}
             /\ \A i \in 1..Len(queue'[p]) : queue'[p][i].tasks = <<>>]_vars

\* A call of Job.put that carries a name and nothing else.
NameOnlyRequest ==
    [cron |-> NULL, parameters |-> NULL, next_scheduled_time |-> NULL,
     max_retained_pipeline_runs |-> NULL, confirm_draft |-> FALSE]

\* C35: an UpdateJob that carries only a name leaves the schedule,
\* next_scheduled_time, parameters, status and counters of the job as they
\* are, whatever the job's status.
C35_NameOnlyUpdateKeepsJob ==
    [][\A p \in Procs :
          pc[p] = "idle" /\ UpdateJob(p, {NameOnlyRequest}) /\ pc'[p] = "commit"
          => wJobs'[p][op'[p].job] = jobs[op'[p].job]]_vars

\* C36: a run row whose status is SUCCESS, FAILURE or ABORTED keeps that
\* status for as long as the row is stored.
C36_RunEndStateFinal ==
    [][\A r \in RunIds :
          IsRun(runs[r]) /\ runs[r].status \in EndStates /\ IsRun(runs'[r])
          => runs'[r].status = runs[r].status]_vars

C38_OneOffJobTerminates ==
    \A j \in OneJob :
        (IsJob(jobs[j]) /\ jobs[j].schedule = NULL /\ jobs[j].status = "STARTED")
        ~> (IsJob(jobs[j]) /\ jobs[j].status \in EndStates)

\* C39: a pruning for a job with max_retained_pipeline_runs = m >= 0 that
\* does not raise and after which every run in an end state with
\* pipeline_run_index <= total_scheduled_pipeline_runs - 1 - m is gone, no
\* other request being served, leaves at most m runs of the job in an end
\* state, namely those with a greater index, and has deleted no run that
\* was PENDING or STARTED.
C39_PrunerKeepsAtMostRetained ==
    [][\A p \in Procs :
          /\ pc[p] = "collateral" /\ UpdateJobPipelineRunCollateral(p)
          /\ \A q \in Procs \ {p} : pc[q] = "idle"
          /\ IsJob(jobs[Head(queue[p]).job])
          /\ jobs[Head(queue[p]).job].max_retained_pipeline_runs >= 0
          /\ response' # "raised"
          => LET j == Head(queue[p]).job
                 m == jobs[j].max_retained_pipeline_runs
                 last == jobs[j].total_scheduled_pipeline_runs - 1
                 ended == {r \in RunIds : /\ IsRun(runs[r]) /\ runs[r].job_uuid = j
                                          /\ runs[r].status \in EndStates}
                 left == {r \in RunIds : /\ IsRun(runs'[r]) /\ runs'[r].job_uuid = j
                                         /\ runs'[r].status \in EndStates}
             IN (\A r \in ended :
                    runs[r].pipeline_run_index <= last - m => ~IsRun(runs'[r]))
                => /\ Cardinality(left) <= m
                   /\ left = {r \in ended : runs[r].pipeline_run_index > last - m}
                   /\ \A r \in RunIds :
                         IsRun(runs[r]) /\ runs[r].status \in OngoingStates
                         => runs'[r] = runs[r]]_vars

\* A pruning with max_retained_pipeline_runs = 1 is over: the run with
\* index 0 is still STARTED, the runs with the indexes 1, 2, 3 are gone and
\* the run with index 4, in an end state, is the one run retained.
C39_Witness ==
    \E j \in JobIds :
        /\ \A p \in Procs : pc[p] = "idle"
        /\ response = "200"
        /\ IsJob(jobs[j]) /\ jobs[j].max_retained_pipeline_runs = 1
        /\ jobs[j].total_scheduled_pipeline_runs = 5
        /\ IsRun(runs[1]) /\ runs[1].status = "STARTED"
        /\ \A r \in 2..4 : runs[r] = NoRow /\ r \in hist.reported
        /\ IsRun(runs[5]) /\ runs[5].status \in EndStates
        /\ runs[5].pipeline_run_index = 4

\* C40: a DeleteJobPipelineRun(job_uuid, run_uuid) whose job exists and
\* whose run is a run of another job returns false, and no step of the
\* request changes a run row, a step row or the status of a job.
C40_DeleteOnlyOwnRun ==
    [][\A p \in Procs :
          LET o == IF op[p].kind = "DeleteJobPipelineRun" THEN op[p] ELSE op'[p]
          IN /\ <<pc[p], op[p]>> # <<pc'[p], op'[p]>>
             /\ o.kind = "DeleteJobPipelineRun"
             /\ IsJob(jobs[o.job])
             /\ IsRun(runs[o.run]) /\ runs[o.run].job_uuid # o.job
             => /\ o.ret = "False"
                /\ runs' = runs /\ steps' = steps
                /\ \A j \in JobIds :
                      IsJob(jobs[j])
                      => IsJob(jobs'[j]) /\ jobs'[j].status = jobs[j].status]_vars

(* ---- the system ---- *)
Next ==
    \E p \in Procs :
        \/ CreateJob(p)
        \/ CreateJobCollateral(p)
        \/ CreateJobRevert(p)
        \/ UpdateJobTransaction(p)
        \/ SchedulerPick(p)
        \/ RunJobTransaction(p)
        \/ RunJobCollateral(p)
        \/ RunJobDispatch(p)
        \/ RunJobRevert(p)
        \/ AbortJobSelect(p)
        \/ AbortJobFlush(p)
        \/ AbortJobCollateral(p)
        \/ DeleteJobTransaction(p)
        \/ DeleteJobFlush(p)
        \/ DeleteJobCollateral(p)
        \/ UpdateJobPipelineRunTransaction(p)
        \/ JobToSuccess(p)
        \/ UpdateJobPipelineRunCollateral(p)
        \/ PipelineStepStatusPut(p)
        \/ AbortJobPipelineRunTransaction(p)
        \/ DeleteJobPipelineRunTransaction(p)
        \/ Commit(p)

Spec == Init /\ [][Next]_vars

(* ---- UpdateJob applied to the jobs the store can hold ---- *)
\* Requests served in a behaviour that starts from a store with a job.
Calls == 1

\* The schedule columns a job row can have in each status: a draft as
\* CreateJob leaves it; PENDING is a confirmed one-off job with a date; a
\* cron job is STARTED with its next occurrence or PAUSED without; AbortJob
\* cleared the time of an ABORTED job; SUCCESS and FAILURE are one-off jobs
\* that ran.
StoredSchedules ==
    {[status |-> "DRAFT", schedule |-> c, next_scheduled_time |-> t] :
        c \in {NULL}, t \in {NULL} \cup {Some(u) : u \in Times}}
    \cup {[status |-> st, schedule |-> Some(CronExpr),
           next_scheduled_time |-> Some(CronNext(u))] :
             st \in {"DRAFT", "STARTED"}, u \in Times}
    \cup {[status |-> "PENDING", schedule |-> NULL,
           next_scheduled_time |-> Some(u)] : u \in Times}
    \cup {[status |-> "PAUSED", schedule |-> Some(CronExpr),
           next_scheduled_time |-> NULL]}
    \cup {[status |-> st, schedule |-> NULL, next_scheduled_time |-> NULL] :
             st \in {"STARTED", "SUCCESS", "FAILURE", "ABORTED"}}
    \cup {[status |-> "ABORTED", schedule |-> Some(CronExpr),
           next_scheduled_time |-> NULL]}

\* A one-off job that ran has been scheduled once, one run per parameter
\* set; its runs may all have been deleted since.
StoredJobs ==
    {[NewJob(sc.schedule, sc.next_scheduled_time, params, maxret) EXCEPT
        !.status = sc.status,
        !.total_scheduled_executions =
            IF sc.schedule = NULL /\ sc.status \notin {"DRAFT", "PENDING"}
            THEN 1 ELSE 0,
        !.total_scheduled_pipeline_runs =
            IF sc.schedule = NULL /\ sc.status \notin {"DRAFT", "PENDING"}
            THEN Len(params) ELSE 0] :
        sc \in StoredSchedules, params \in ParamLists, maxret \in RetainChoices}

InitUpdate ==
    /\ jobs \in [OneJob -> StoredJobs]
    /\ runs = [r \in 1..MaxRuns |-> NoRow]
    /\ steps = [r \in 1..MaxRuns |-> NoRow]
    /\ pc = [p \in Procs |-> "idle"]
    /\ op = [p \in Procs |-> NoOp]
    /\ wJobs = [p \in Procs |-> NoJobsWritten]
    /\ wRuns = [p \in Procs |-> NoRunsWritten]
    /\ wSteps = [p \in Procs |-> NoRunsWritten]
    /\ queue = [p \in Procs |-> <<>>]
    /\ response = "none"
    /\ nextUuid = 1
    /\ dispatched = <<>>
    /\ revoked = {}
    /\ hist = [job |-> [j \in JobIds |-> NoLaunch], used |-> JobIds,
               created |-> {}, reported |-> {}, stale |-> 0, raised |-> "",
               first |-> jobs, calls |-> <<>>]
    /\ opsLeft = Calls

\* Job.put with any combination of fields.
JobPut(p) == UpdateJob(p, AllUpdateRequests)

NextUpdate == \E p \in Procs : JobPut(p) \/ Commit(p)

SpecUpdate == InitUpdate /\ [][NextUpdate]_vars

(* ---- the pruner applied to the runs a cron job can have ---- *)
\* Runs the job has scheduled, and the largest max_retained_pipeline_runs.
PrunedRuns == 5
MaxRetained == 2

\* A cron job that has been run PrunedRuns times with one parameter set:
\* run r carries pipeline_run_index r - 1.
PrunedJob(maxret) ==
    [NewJob(Some(CronExpr), Some(CronNext(1)), <<10>>, maxret) EXCEPT
        !.status = "STARTED",
        !.total_scheduled_executions = PrunedRuns,
        !.total_scheduled_pipeline_runs = PrunedRuns]

PrunedRun(job, j, r, status) ==
    [NonInteractiveRun([job EXCEPT !.total_scheduled_executions = r - 1,
                                   !.total_scheduled_pipeline_runs = r - 1],
                       j, 0)
        EXCEPT !.status = status]

\* Every task has been sent; a run is still STARTED or has ended, and its
\* step with it.  The report of the end state of one run has just been
\* committed by handler 1, whose collateral is about to start; no other
\* request follows.
InitPrune ==
    /\ \E maxret \in {0 - 1} \cup 0..MaxRetained :
          jobs = [j \in OneJob |-> PrunedJob(maxret)]
    /\ \E st \in [1..PrunedRuns -> {"STARTED", "SUCCESS", "FAILURE"}] :
          /\ runs = [r \in 1..PrunedRuns |->
                        PrunedRun(jobs["j1"], "j1", r, st[r])]
          /\ steps = [r \in 1..PrunedRuns |-> [s \in StepIds |-> st[r]]]
          /\ hist = [job |-> [j \in JobIds |->
                                [batches |-> [r \in 1..PrunedRuns |-> <<r>>],
                                 params |-> PrunedRuns,
                                 assigned |-> [r \in 1..PrunedRuns |-> r - 1]]],
                     used |-> JobIds, created |-> 1..PrunedRuns,
                     reported |-> {r \in 1..PrunedRuns : st[r] # "STARTED"},
                     stale |-> 0, raised |-> "", first |-> jobs,
                     calls |-> <<>>]
          /\ \E r \in 1..PrunedRuns :
                /\ st[r] \in EndStates
                /\ op = [p \in Procs |->
                            IF p = 1
                            THEN [NoOp EXCEPT
                                    !.kind = "UpdateJobPipelineRun",
                                    !.job = "j1", !.run = r, !.status = st[r],
                                    !.committed = TRUE, !.ret = "200"]
                            ELSE NoOp]
                /\ queue = [p \in Procs |->
                               IF p = 1
                               THEN <<UpdateJobPipelineRunUnit("j1", st[r], FALSE)>>
                               ELSE <<>>]
    /\ pc = [p \in Procs |-> IF p = 1 THEN "collateral" ELSE "idle"]
    /\ wJobs = [p \in Procs |-> NoJobsWritten]
    /\ wRuns = [p \in Procs |-> NoRunsWritten]
    /\ wSteps = [p \in Procs |-> NoRunsWritten]
    /\ response = "none"
    /\ nextUuid = PrunedRuns + 1
    /\ dispatched = [r \in 1..PrunedRuns |-> r]
    /\ revoked = {}
    /\ opsLeft = 0

NextPrune == \E p \in Procs : UpdateJobPipelineRunCollateral(p)

SpecPrune == InitPrune /\ [][NextPrune]_vars

(* ---- end to end: one immediate one-off job ---- *)
\* Parameter sets of the job.
E2EParams == 3

\* The empty store with room for the runs of the job; the requests are the
\* creation, the confirmation and one report per run.
InitE2E ==
    /\ jobs = [j \in OneJob |-> NoRow]
    /\ runs = [r \in 1..E2EParams |-> NoRow]
    /\ steps = [r \in 1..E2EParams |-> NoRow]
    /\ pc = [p \in Procs |-> "idle"]
    /\ op = [p \in Procs |-> NoOp]
    /\ wJobs = [p \in Procs |-> NoJobsWritten]
    /\ wRuns = [p \in Procs |-> NoRunsWritten]
    /\ wSteps = [p \in Procs |-> NoRunsWritten]
    /\ queue = [p \in Procs |-> <<>>]
    /\ response = "none"
    /\ nextUuid = 1
    /\ dispatched = <<>>
    /\ revoked = {}
    /\ hist = [job |-> [j \in JobIds |-> NoLaunch], used |-> {},
               created |-> {}, reported |-> {}, stale |-> 0, raised |-> "",
               first |-> [j \in JobIds |-> NoRow], calls |-> <<>>]
    /\ opsLeft = E2EParams + 2

\* CreateJob of a one-off job to be run at once, with E2EParams parameter
\* sets.
CreateJobE2E(p) ==
    CreateJobWith(p, {NULL}, {NULL}, {[i \in 1..E2EParams |-> i * 10]})

\* UpdateJob with confirm_draft and no other field.
ConfirmDraft(p) ==
    UpdateJob(p, {a \in AllUpdateRequests :
                    /\ a.confirm_draft
                    /\ a.cron = NULL /\ a.parameters = NULL
                    /\ a.next_scheduled_time = NULL
                    /\ a.max_retained_pipeline_runs = NULL})

\* A run reports SUCCESS.
ReportSuccess(p) == UpdateJobPipelineRun(p, {"SUCCESS"})

NextE2E ==
    \E p \in Procs :
        \/ CreateJobE2E(p)
        \/ CreateJobCollateral(p)
        \/ CreateJobRevert(p)
        \/ ConfirmDraft(p)
        \/ RunJobCollateral(p)
        \/ RunJobDispatch(p)
        \/ RunJobRevert(p)
        \/ ReportSuccess(p)
        \/ JobToSuccess(p)
        \/ UpdateJobPipelineRunCollateral(p)
        \/ Commit(p)

SpecE2E == InitE2E /\ [][NextE2E]_vars

(* ---- CreateJob at any time of the clock ---- *)
\* JobList.post with any schedule, at any time.
JobListPost(p) ==
    CreateJobAt(p, {NULL, Some(CronExpr), Some(BadCron)},
                {NULL} \cup {Some(t) : t \in Clock}, ParamLists, Clock)

NextCreate ==
    \E p \in Procs :
        \/ JobListPost(p)
        \/ CreateJobCollateral(p)
        \/ CreateJobRevert(p)

SpecCreate == Init /\ [][NextCreate]_vars

(* ---- pause and resume calls on the jobs the store can hold ---- *)
\* Pause and resume calls served in a behaviour.
CronCalls == 3

\* No row with the uuid, or a stored job with one parameter set.
CronStoredJobs ==
    {NoRow} \cup {job \in StoredJobs :
                    /\ Len(job.parameters) = 1
                    /\ job.max_retained_pipeline_runs = 0 - 1}

InitCron ==
    /\ jobs \in [OneJob -> CronStoredJobs]
    /\ runs = [r \in 1..MaxRuns |-> NoRow]
    /\ steps = [r \in 1..MaxRuns |-> NoRow]
    /\ pc = [p \in Procs |-> "idle"]
    /\ op = [p \in Procs |-> NoOp]
    /\ wJobs = [p \in Procs |-> NoJobsWritten]
    /\ wRuns = [p \in Procs |-> NoRunsWritten]
    /\ wSteps = [p \in Procs |-> NoRunsWritten]
    /\ queue = [p \in Procs |-> <<>>]
    /\ response = "none"
    /\ nextUuid = 1
    /\ dispatched = <<>>
    /\ revoked = {}
    /\ hist = [job |-> [j \in JobIds |-> NoLaunch], used |-> JobIds,
               created |-> {}, reported |-> {}, stale |-> 0, raised |-> "",
               first |-> jobs, calls |-> <<>>]
    /\ opsLeft = CronCalls

\* CronJobPause.post and CronJobResume.post
ResumeCronJob(p) == ResumeCronJobAt(p, Clock)

CronJobLocked(p) == CronJobLockedAt(p, Clock)

NextCron ==
    \E p \in Procs :
        \/ PauseCronJob(p)
        \/ ResumeCronJob(p)
        \/ CronJobLocked(p)
        \/ Commit(p)

SpecCron == InitCron /\ [][NextCron]_vars

(* ---- an immediate one-off job whose runs are all reported ---- *)
\* The empty store with room for MaxRuns runs; the requests are the
\* creation, the confirmation and one report per run.
InitLive ==
    /\ jobs = [j \in OneJob |-> NoRow]
    /\ runs = [r \in 1..MaxRuns |-> NoRow]
    /\ steps = [r \in 1..MaxRuns |-> NoRow]
    /\ pc = [p \in Procs |-> "idle"]
    /\ op = [p \in Procs |-> NoOp]
    /\ wJobs = [p \in Procs |-> NoJobsWritten]
    /\ wRuns = [p \in Procs |-> NoRunsWritten]
    /\ wSteps = [p \in Procs |-> NoRunsWritten]
    /\ queue = [p \in Procs |-> <<>>]
    /\ response = "none"
    /\ nextUuid = 1
    /\ dispatched = <<>>
    /\ revoked = {}
    /\ hist = [job |-> [j \in JobIds |-> NoLaunch], used |-> {},
               created |-> {}, reported |-> {}, stale |-> 0, raised |-> "",
               first |-> [j \in JobIds |-> NoRow], calls |-> <<>>]
    /\ opsLeft = MaxRuns + 2

\* CreateJob of a one-off job to be run at once, with any parameter list.
CreateJobLive(p) == CreateJobWith(p, {NULL}, {NULL}, ParamLists)

\* The worker of a task reports the end of its run, once.
WorkerReport(p) ==
    /\ UpdateJobPipelineRun(p, StepReported)
    /\ op'[p].kind = "UpdateJobPipelineRun"
    /\ op'[p].run \notin hist.reported

\* The steps of handler p: the creation and the confirmation are accepted,
\* and no collateral raises.
LiveStep(p) ==
    \/ CreateJobLive(p) /\ pc'[p] = "collateral"
    \/ CreateJobCollateral(p) /\ pc'[p] # "revert"
    \/ ConfirmDraft(p) /\ pc'[p] = "commit"
    \/ RunJobCollateral(p) /\ pc'[p] # "revert"
    \/ RunJobDispatch(p) /\ pc'[p] # "revert"
    \/ WorkerReport(p)
    \/ JobToSuccess(p)
    \/ UpdateJobPipelineRunCollateral(p) /\ response' # "raised"
    \/ Commit(p)

NextLive == \E p \in Procs : LiveStep(p)

\* A handler that can take a step takes one; a request that can be served,
\* a worker's report included, is served.
SpecLive ==
    InitLive /\ [][NextLive]_vars /\ \A p \in Procs : WF_vars(LiveStep(p))

(* ---- run deletions in a store that holds two jobs ---- *)
TwoJobs == {"j1", "j2"}
DeleteCalls == 2

\* Run 1 is the run of job j1 and run 2 the run of job j2.
JobOfRun(r) == IF r = 1 THEN "j1" ELSE "j2"

\* A job with one parameter set: a DRAFT that has no run yet, or a job
\* that was run once and whose run has the status given.  A one-off job
\* whose run has ended is SUCCESS.
JobWithRun(cron, status) ==
    LET draft == NewJob(cron, IF cron = NULL THEN NULL ELSE Some(CronNext(1)),
                        <<10>>, 0 - 1)
    IN IF status = "DRAFT" THEN draft
       ELSE [draft EXCEPT
               !.status = IF cron = NULL /\ status \in EndStates
                          THEN "SUCCESS" ELSE "STARTED",
               !.total_scheduled_executions = 1,
               !.total_scheduled_pipeline_runs = 1]

\* Both jobs are stored, each a DRAFT or run once; the tasks of the runs
\* have been sent; the requests are DeleteCalls deletions of a run.
InitTwoJobs ==
    \E cron \in [TwoJobs -> {NULL, Some(CronExpr)}],
       st \in [TwoJobs -> {"DRAFT", "STARTED", "SUCCESS"}] :
        /\ jobs = [j \in TwoJobs |-> JobWithRun(cron[j], st[j])]
        /\ runs = [r \in 1..2 |->
                      IF st[JobOfRun(r)] = "DRAFT" THEN NoRow
                      ELSE [NonInteractiveRun(
                                NewJob(cron[JobOfRun(r)], NULL, <<10>>, 0 - 1),
                                JobOfRun(r), 0)
                               EXCEPT !.status = st[JobOfRun(r)]]]
        /\ steps = [r \in 1..2 |->
                       IF st[JobOfRun(r)] = "DRAFT" THEN NoRow
                       ELSE [s \in StepIds |-> st[JobOfRun(r)]]]
        /\ pc = [p \in Procs |-> "idle"]
        /\ op = [p \in Procs |-> NoOp]
        /\ wJobs = [p \in Procs |-> NoJobsWritten]
        /\ wRuns = [p \in Procs |-> NoRunsWritten]
        /\ wSteps = [p \in Procs |-> NoRunsWritten]
        /\ queue = [p \in Procs |-> <<>>]
        /\ response = "none"
        /\ nextUuid = 3
        /\ dispatched = InOrder({r \in 1..2 : st[JobOfRun(r)] # "DRAFT"})
        /\ revoked = {}
        /\ hist = [job |-> [j \in TwoJobs |->
                              IF st[j] = "DRAFT" THEN NoLaunch
                              ELSE [batches |-> <<InOrder({r \in 1..2 : JobOfRun(r) = j})>>,
                                    params |-> 1, assigned |-> <<0>>]],
                   used |-> TwoJobs,
                   created |-> {r \in 1..2 : st[JobOfRun(r)] # "DRAFT"},
                   reported |-> {r \in 1..2 : st[JobOfRun(r)] = "SUCCESS"},
                   stale |-> 0, raised |-> "", first |-> jobs, calls |-> <<>>]
        /\ opsLeft = DeleteCalls

NextTwoJobs ==
    \E p \in Procs :
        \/ DeleteJobPipelineRunTransaction(p)
        \/ JobToSuccess(p)
        \/ AbortJobCollateral(p)
        \/ UpdateJobPipelineRunCollateral(p)
        \/ Commit(p)

SpecTwoJobs == InitTwoJobs /\ [][NextTwoJobs]_vars

====
